---- MODULE Spec2Model ----
(***************************************************************************)
(* A model of the NTS Key Establishment implementation (nts_ke.c): the     *)
(* record codec of the message buffer, the rotating server key ring with   *)
(* cookie sealing and opening, and the per-connection state machine driven *)
(* by the scheduler's file and timeout callbacks.                          *)
(*                                                                         *)
(* Three groups of variables are kept side by side:                        *)
(*   - the codec bench  (message, records, added, out, fmt, pc),           *)
(*   - the key ring     (server_keys, current_server_key, ...),            *)
(*   - the connections  (inst, sched_events, sched_timeout, ...).          *)
(* Each specification moves one group and leaves the others in their       *)
(* initial state.                                                          *)
(***************************************************************************)
EXTENDS Integers, Sequences, FiniteSets, TLC

VARIABLES
  message,      \* codec bench: the struct NKE_Message under test
  records,      \* codec bench: the records to be appended, in order
  added,        \* codec bench: how many of them add_record has taken
  out,          \* codec bench: the tuples get_record has yielded so far
  fmt,          \* codec bench: last check_message_format result, "none" if stale
  pc,           \* codec bench: "append", "full", "iterate" or "done"
  server_keys,          \* key ring: ServerKey server_keys[MAX_SERVER_KEYS]
  current_server_key,   \* key ring: index of the key that seals new cookies
  keys_drawn,           \* key ring: number of SIV keys drawn from the random source
  sealed,               \* key ring: the cookie under observation, with what it seals
  decoded,              \* key ring: result of the last NKE_DecodeCookie on it
  inst,         \* connections: each NKE_Instance_Record, with what the scheduler
                \*   and the OS hold for its descriptor (events, timer, open)
  conn_log,     \* connections: per connection, how many bytes were handed to
                \*   gnutls_record_send
  call,         \* connections: the callback that ran last and the value r it got
  server_instances, \* server: NKE_Instance server_instances[MAX_SERVER_INSTANCES]
  nts,          \* NTS client: the NTS_ClientInstance_Record
  packet,       \* NTS client: the extension fields of the request built last
  nts_log,      \* NTS client: history of its draws and of the response it read
  request,      \* NTP server: the request it received (NTP_Packet, NTP_PacketInfo)
  response      \* NTP server: the response it is building (NTP_Packet, NTP_PacketInfo)

codecVars == <<message, records, added, out, fmt, pc>>

keyVars == <<server_keys, current_server_key, keys_drawn, sealed, decoded>>

connVars == <<inst, conn_log, call>>

poolVars == <<server_instances>>

ntsVars == <<nts, packet, nts_log, request, response>>

vars == <<message, records, added, out, fmt, pc,
          server_keys, current_server_key, keys_drawn, sealed, decoded,
          inst, conn_log, call, server_instances, nts, packet, nts_log,
          request, response>>

(***************************************************************************)
(* Program constants                                                       *)
(***************************************************************************)
RECORD_CRITICAL_BIT == 32768

RECORD_END_OF_MESSAGE == 0

RECORD_NEXT_PROTOCOL == 1

RECORD_ERROR == 2

RECORD_WARNING == 3

RECORD_AEAD_ALGORITHM == 4

RECORD_COOKIE == 5

RECORD_NTPV4_SERVER_NEGOTIATION == 6

RECORD_NTPV4_PORT_NEGOTIATION == 7

MAX_MESSAGE_LENGTH == 16384

MAX_BODY_LENGTH == 65535

HEADER_SIZE == 4

KEY_ID_INDEX_BITS == 2

MAX_SERVER_KEYS == 4

SIV_DIGEST_SIZE == 16

NONCE_SIZE == 16

KEY_SIZE == 32

\* sizeof (ServerCookie): key_id, nonce[16], ciphertext[64 + 16]
SERVER_COOKIE_SIZE == 100

ERROR_BAD_RESPONSE == -2

ERROR_NONE == -1

ERROR_UNRECOGNIZED_CRITICAL_RECORD == 0

ERROR_BAD_REQUEST == 1

NEXT_PROTOCOL_NONE == -1

NEXT_PROTOCOL_NTPV4 == 0

AEAD_NONE == -1

AEAD_AES_SIV_CMAC_256 == 15

MAX_RECORD_BODY_LENGTH == 256

MAX_COOKIES == 8

\* nts_ke.h: the size of NKE_Cookie.cookie
NKE_MAX_COOKIE_LENGTH == 256

INVALID_SOCK_FD == -4

NTP_PORT == 123

MAX_SERVER_INSTANCES == 10

KE_UNKNOWN == "KE_UNKNOWN"

KE_SERVER == "KE_SERVER"

KE_CLIENT == "KE_CLIENT"

KE_WAIT_CONNECT == "KE_WAIT_CONNECT"

KE_HANDSHAKE == "KE_HANDSHAKE"

KE_SEND == "KE_SEND"

KE_RECEIVE == "KE_RECEIVE"

KE_SHUTDOWN == "KE_SHUTDOWN"

KE_CLOSED == "KE_CLOSED"

SCH_FILE_INPUT == "SCH_FILE_INPUT"

SCH_FILE_OUTPUT == "SCH_FILE_OUTPUT"

MSG_INCOMPLETE == "MSG_INCOMPLETE"

MSG_ERROR == "MSG_ERROR"

MSG_OK == "MSG_OK"

(***************************************************************************)
(* Bounds of the model                                                     *)
(***************************************************************************)
MaxRecords == 2

MaxRotations == 5

\* Bytes a peer delivers into one message buffer
MaxRecvBytes == 10

\* Iterations of the receive loop within one callback
MaxRecvLoop == 2

\* How many records a request has before its End-of-Message
MaxRequestRecords == 2

MaxResponseRecords == 4

MaxDraws == 2

MaxAppends == 2

\* SpecServer: the longest request made of ServerFields, and the highest
\* number of the NEF_AddField call of NTS_GenerateResponseAuth that may fail
MaxFields == 2

MaxAddFails == 2

\* SpecAuth: the longest body of an authenticator field
MaxAuthBody == 12

\* How many slots of the pool may hold a pointer that has been freed before
\* create_session fails again
MaxFreed == 1

\* How many instances of the pool may be Closed at a time before another
\* is closed or created Closed
MaxClosed == 2

(***************************************************************************)
(* Byte order helpers: a uint16_t in network order is two bytes, high      *)
(* byte first.                                                             *)
(***************************************************************************)
MIN(a, b) == IF a < b THEN a ELSE b

htons(x) == << (x % 65536) \div 256, x % 256 >>

ntohs(b) == b[1] * 256 + b[2]

\* !!critical * RECORD_CRITICAL_BIT | type, stored in a uint16_t
TypeField(critical, type) ==
  LET t == type % 65536
  IN  IF critical # 0 /\ t < RECORD_CRITICAL_BIT THEN t + RECORD_CRITICAL_BIT ELSE t

(***************************************************************************)
(* struct NKE_Message.  data holds the `length` valid bytes of the array;  *)
(* the bytes past `length` are never read (get_record checks both bounds   *)
(* before each memcpy), so they are not kept.                              *)
(***************************************************************************)
NewMessage == [length |-> 0, sent |-> 0, eof |-> 0, parsed |-> 0, data |-> << >>]

reset_message(m) == [m EXCEPT !.length = 0, !.sent = 0, !.eof = 0, !.parsed = 0, !.data = << >>]

reset_message_parsing(m) == [m EXCEPT !.parsed = 0]

\* add_record without the test of the space left in the buffer
add_record_no_space_check(m, critical, type, body, body_length) ==
  IF body_length < 0 \/ body_length > MAX_BODY_LENGTH
  THEN [ret |-> 0, message |-> m]
  ELSE [ret |-> 1,
        message |-> [m EXCEPT
          !.data = SubSeq(m.data, 1, m.length) \o htons(TypeField(critical, type))
                     \o htons(body_length) \o SubSeq(body, 1, body_length),
          !.length = m.length + HEADER_SIZE + body_length]]

\* add_record: [ret, message]
add_record(m, critical, type, body, body_length) ==
  IF body_length < 0 \/ body_length > MAX_BODY_LENGTH
       \/ m.length + HEADER_SIZE + body_length > MAX_MESSAGE_LENGTH
  THEN [ret |-> 0, message |-> m]
  ELSE [ret |-> 1,
        message |-> [m EXCEPT
          !.data = SubSeq(m.data, 1, m.length) \o htons(TypeField(critical, type))
                     \o htons(body_length) \o SubSeq(body, 1, body_length),
          !.length = m.length + HEADER_SIZE + body_length]]

\* get_record without the mask that strips the critical bit from the type.
get_record_nomask(m, body_cap) ==
  LET none == [ret |-> 0, critical |-> 0, type |-> 0, body |-> << >>,
               body_length |-> 0, message |-> m]
  IN
  IF m.length < m.parsed + HEADER_SIZE THEN none
  ELSE
    LET htype == ntohs(SubSeq(m.data, m.parsed + 1, m.parsed + 2))
        blen  == ntohs(SubSeq(m.data, m.parsed + 3, m.parsed + 4))
        rlen  == HEADER_SIZE + blen
    IN
    IF m.length < m.parsed + rlen THEN none
    ELSE [ret |-> 1,
          critical |-> IF htype >= RECORD_CRITICAL_BIT THEN 1 ELSE 0,
          type |-> htype,
          body |-> SubSeq(m.data, m.parsed + HEADER_SIZE + 1,
                          m.parsed + HEADER_SIZE + MIN(body_cap, blen)),
          body_length |-> blen,
          message |-> [m EXCEPT !.parsed = m.parsed + rlen]]

\* get_record with a body buffer of body_cap bytes:
\* [ret, critical, type, body, body_length, message]
get_record(m, body_cap) ==
  LET none == [ret |-> 0, critical |-> 0, type |-> 0, body |-> << >>,
               body_length |-> 0, message |-> m]
  IN
  IF m.length < m.parsed + HEADER_SIZE THEN none
  ELSE
    LET htype == ntohs(SubSeq(m.data, m.parsed + 1, m.parsed + 2))
        blen  == ntohs(SubSeq(m.data, m.parsed + 3, m.parsed + 4))
        rlen  == HEADER_SIZE + blen
    IN
    IF m.length < m.parsed + rlen THEN none
    ELSE [ret |-> 1,
          critical |-> IF htype >= RECORD_CRITICAL_BIT THEN 1 ELSE 0,
          type |-> htype % RECORD_CRITICAL_BIT,
          body |-> SubSeq(m.data, m.parsed + HEADER_SIZE + 1,
                          m.parsed + HEADER_SIZE + MIN(body_cap, blen)),
          body_length |-> blen,
          message |-> [m EXCEPT !.parsed = m.parsed + rlen]]

\* The while loop of check_message_format: the last record got, if any.
RECURSIVE ScanRecords(_, _)
ScanRecords(m, last) ==
  LET g == get_record(m, 0)
  IN  IF g.ret = 0 THEN [message |-> m, last |-> last]
      ELSE ScanRecords(g.message, g)

\* check_message_format that treats an empty buffer as an error at once.
check_message_format_empty_error(m) ==
  LET s == ScanRecords(reset_message_parsing(m), [ret |-> 0])
      mm == s.message
  IN
  IF mm.length = 0 THEN [ret |-> MSG_ERROR, message |-> mm]
  ELSE IF mm.parsed < mm.length
  THEN [ret |-> IF mm.eof # 0 THEN MSG_ERROR ELSE MSG_INCOMPLETE, message |-> mm]
  ELSE IF s.last.critical = 0 \/ s.last.type # RECORD_END_OF_MESSAGE
            \/ s.last.body_length # 0
       THEN [ret |-> MSG_ERROR, message |-> mm]
       ELSE [ret |-> MSG_OK, message |-> mm]

\* check_message_format: [ret, message].  With no record got, critical, type
\* and length are uninitialised when read; that case returns before the read.
check_message_format(m) ==
  LET s == ScanRecords(reset_message_parsing(m), [ret |-> 0])
      mm == s.message
  IN
  IF mm.length = 0 \/ mm.parsed < mm.length
  THEN [ret |-> IF mm.eof # 0 THEN MSG_ERROR ELSE MSG_INCOMPLETE, message |-> mm]
  ELSE IF s.last.critical = 0 \/ s.last.type # RECORD_END_OF_MESSAGE
            \/ s.last.body_length # 0
       THEN [ret |-> MSG_ERROR, message |-> mm]
       ELSE [ret |-> MSG_OK, message |-> mm]

(***************************************************************************)
(* The codec bench: append the records of `records` to a reset buffer,     *)
(* let the peer close, validate, iterate.                                  *)
(***************************************************************************)
BenchTypes == {RECORD_END_OF_MESSAGE, RECORD_NEXT_PROTOCOL, 32767}

BenchBodies == { << >>, <<7>>, <<0, 15>> }

LongBody == [i \in 1..258 |-> i % 256]

BenchRecords ==
  [critical : {0, 1}, type : BenchTypes, body : BenchBodies]
    \cup {[critical |-> 0, type |-> 261, body |-> LongBody]}

RecordSeqs(n) == UNION {[1..k -> BenchRecords] : k \in 0..n}

\* One add_record call with the next record of the input.
AddRecord ==
  /\ pc = "append"
  /\ added < Len(records)
  /\ LET r == records[added + 1]
         a == add_record(message, r.critical, r.type, r.body, Len(r.body))
     IN  /\ message' = a.message
         /\ added' = added + a.ret
         /\ pc' = IF a.ret = 1 THEN "append" ELSE "full"
  /\ fmt' = "none"
  /\ UNCHANGED <<records, out>>
  /\ UNCHANGED <<keyVars, connVars, poolVars, ntsVars>>

\* The peer closes the stream: read_write_socket sets eof on a read of 0 bytes.
SetEof ==
  /\ pc = "append"
  /\ message.eof = 0
  /\ message' = [message EXCEPT !.eof = 1]
  /\ fmt' = "none"
  /\ UNCHANGED <<records, added, out, pc>>
  /\ UNCHANGED <<keyVars, connVars, poolVars, ntsVars>>

CheckFormat ==
  /\ pc = "append"
  /\ fmt = "none"
  /\ LET c == check_message_format(message)
     IN  /\ fmt' = c.ret
         /\ message' = c.message
  /\ UNCHANGED <<records, added, out, pc>>
  /\ UNCHANGED <<keyVars, connVars, poolVars, ntsVars>>

\* Start an iteration from parsed = 0.
StartIterate ==
  /\ pc = "append"
  /\ message' = reset_message_parsing(message)
  /\ out' = << >>
  /\ pc' = "iterate"
  /\ UNCHANGED <<records, added, fmt>>
  /\ UNCHANGED <<keyVars, connVars, poolVars, ntsVars>>

\* One get_record call of the iteration.
GetRecord ==
  /\ pc = "iterate"
  /\ LET g == get_record(message, MAX_BODY_LENGTH)
     IN  /\ message' = g.message
         /\ out' = IF g.ret = 1
                   THEN Append(out, [critical |-> g.critical, type |-> g.type,
                                     body_length |-> g.body_length, body |-> g.body])
                   ELSE out
         /\ pc' = IF g.ret = 1 THEN "iterate" ELSE "done"
  /\ UNCHANGED <<records, added, fmt>>
  /\ UNCHANGED <<keyVars, connVars, poolVars, ntsVars>>

(***************************************************************************)
(* The server key ring and the cookies                                     *)
(*                                                                         *)
(* AES-SIV is modelled symbolically.  A SIV context is a number: 0 is the  *)
(* zero-initialised context of a slot never installed, n > 0 the n-th key  *)
(* drawn from the random source (two draws of 32 random bytes are taken to *)
(* differ).  Exporter keys and nonces are constant-fill byte strings named *)
(* by their fill byte.  Byte i of a ciphertext is a number above 255 that  *)
(* encodes (context, nonce, plaintext, i), so that it decrypts under the   *)
(* same context and nonce only.                                            *)
(***************************************************************************)
Fill(n, b) == [i \in 1..n |-> b]

\* NKE_Key values: c2s and s2c keys of KEY_SIZE bytes
KeyFills == {17, 34}

NKE_Keys == {[length |-> KEY_SIZE, key |-> Fill(KEY_SIZE, b)] : b \in KeyFills}

NonceFills == {161, 162}

Nonces == {Fill(NONCE_SIZE, b) : b \in NonceFills}

\* Values UTI_GetRandomBytes may give for a key id (a uint32_t; kept below 2^31)
RandomIds == {3, 2147483647}

SivByte(siv, nonce, plaintext, i) ==
  256 + i + 128 * (siv + 32 * ((nonce[1] % 16) + 16 * ((plaintext[1] % 16)
                                 + 16 * (plaintext[KEY_SIZE + 1] % 16))))

\* siv_cmac_aes128_encrypt_message with no associated data
SivEncrypt(siv, nonce, plaintext) ==
  [i \in 1..(Len(plaintext) + SIV_DIGEST_SIZE) |-> SivByte(siv, nonce, plaintext, i)]

Plaintexts == {a.key \o b.key : a \in NKE_Keys, b \in NKE_Keys}

\* siv_cmac_aes128_decrypt_message: [ret, plaintext]
SivDecrypt(siv, nonce, ciphertext) ==
  LET match == {p \in Plaintexts : SivEncrypt(siv, nonce, p) = ciphertext}
  IN  IF match = {} THEN [ret |-> 0, plaintext |-> << >>]
      ELSE [ret |-> 1, plaintext |-> CHOOSE p \in match : TRUE]

\* A uint32_t as it lies in memory (low byte first) and back
U32Bytes(x) == << x % 256, (x \div 256) % 256, (x \div 65536) % 256, x \div 16777216 >>

BytesU32(b) == b[1] + 256 * b[2] + 65536 * b[3] + 16777216 * b[4]

ZeroServerKeys == [i \in 0..(MAX_SERVER_KEYS - 1) |-> [id |-> 0, siv |-> 0]]

\* generate_server_key that draws a new id but leaves the slot's SIV key as it was.
generate_server_key_no_set_key(keys, current, newsiv, rand) ==
  LET cur == (current + 1) % MAX_SERVER_KEYS
      id  == (rand - (rand % MAX_SERVER_KEYS)) + cur
  IN  [server_keys |-> [keys EXCEPT ![cur] = [id |-> id, siv |-> keys[cur].siv]],
       current_server_key |-> cur]

\* generate_server_key that installs the new key without advancing the index.
generate_server_key_same_slot(keys, current, newsiv, rand) ==
  LET cur == current
      id  == (rand - (rand % MAX_SERVER_KEYS)) + cur
  IN  [server_keys |-> [keys EXCEPT ![cur] = [id |-> id, siv |-> newsiv]],
       current_server_key |-> cur]

\* generate_server_key that keeps the id as drawn, without the slot's index.
generate_server_key_random_id(keys, current, newsiv, rand) ==
  LET cur == (current + 1) % MAX_SERVER_KEYS
  IN  [server_keys |-> [keys EXCEPT ![cur] = [id |-> rand, siv |-> newsiv]],
       current_server_key |-> cur]

\* generate_server_key: newsiv is the context of the key drawn, rand the
\* random uint32_t drawn for the id.  [server_keys, current_server_key]
generate_server_key(keys, current, newsiv, rand) ==
  LET cur == (current + 1) % MAX_SERVER_KEYS
      id  == (rand - (rand % MAX_SERVER_KEYS)) + cur
  IN  [server_keys |-> [keys EXCEPT ![cur] = [id |-> id, siv |-> newsiv]],
       current_server_key |-> cur]

\* NKE_GenerateCookie: [ret, cookie] with cookie = [length, cookie (bytes)]
NKE_GenerateCookie(keys, current, c2s, s2c, nonce) ==
  LET key == keys[current]
      plaintext == SubSeq(c2s.key, 1, KEY_SIZE) \o SubSeq(s2c.key, 1, KEY_SIZE)
  IN  [ret |-> 1,
       cookie |-> [length |-> SERVER_COOKIE_SIZE,
                   cookie |-> U32Bytes(key.id) \o nonce
                                \o SivEncrypt(key.siv, nonce, plaintext)]]

\* An NKE_Key left unset
NoKey == [length |-> 0, key |-> << >>]

\* NKE_DecodeCookie: [ret, c2s, s2c]
NKE_DecodeCookie(keys, nke_cookie) ==
  LET fail == [ret |-> 0, c2s |-> NoKey, s2c |-> NoKey]
  IN
  IF nke_cookie.length # SERVER_COOKIE_SIZE THEN fail
  ELSE
    LET key_id == BytesU32(SubSeq(nke_cookie.cookie, 1, 4))
        nonce  == SubSeq(nke_cookie.cookie, 5, 4 + NONCE_SIZE)
        ciphertext == SubSeq(nke_cookie.cookie, 5 + NONCE_SIZE, SERVER_COOKIE_SIZE)
        key == keys[key_id % MAX_SERVER_KEYS]
    IN
    IF key_id # key.id THEN fail
    ELSE
      LET d == SivDecrypt(key.siv, nonce, ciphertext)
      IN  IF d.ret = 0 THEN fail
          ELSE [ret |-> 1,
                c2s |-> [length |-> KEY_SIZE, key |-> SubSeq(d.plaintext, 1, KEY_SIZE)],
                s2c |-> [length |-> KEY_SIZE,
                         key |-> SubSeq(d.plaintext, KEY_SIZE + 1, 2 * KEY_SIZE)]]

NoCookie == [at |-> 0, cookie |-> [length |-> 0, cookie |-> << >>], c2s |-> NoKey, s2c |-> NoKey]

\* No NKE_DecodeCookie result at hand
NotDecoded == [ret |-> -1, c2s |-> NoKey, s2c |-> NoKey]

\* NKE_Initialise of a configured server: current_server_key = 0, then the
\* first server_key_timeout installs slot 1 (rand is the id drawn).
InitialKeyRing(rand) == generate_server_key(ZeroServerKeys, 0, 1, rand)

\* server_key_timeout: one rotation (the timer is re-armed each time).
server_key_timeout ==
  /\ keys_drawn <= MaxRotations
  /\ \E rand \in RandomIds :
       LET g == generate_server_key(server_keys, current_server_key, keys_drawn + 1, rand)
       IN  /\ server_keys' = g.server_keys
           /\ current_server_key' = g.current_server_key
  /\ keys_drawn' = keys_drawn + 1
  /\ decoded' = NotDecoded
  /\ UNCHANGED sealed
  /\ UNCHANGED <<codecVars, connVars, poolVars, ntsVars>>

\* A cookie is sealed for some key pair with some nonce; it is the one observed.
SealCookie ==
  /\ sealed = NoCookie
  /\ \E c2s \in NKE_Keys, s2c \in NKE_Keys, nonce \in Nonces :
       LET g == NKE_GenerateCookie(server_keys, current_server_key, c2s, s2c, nonce)
       IN  sealed' = [at |-> keys_drawn, cookie |-> g.cookie, c2s |-> c2s, s2c |-> s2c]
  /\ UNCHANGED <<server_keys, current_server_key, keys_drawn, decoded>>
  /\ UNCHANGED <<codecVars, connVars, poolVars, ntsVars>>

\* The observed cookie comes back and is opened.
OpenCookie ==
  /\ sealed # NoCookie
  /\ decoded = NotDecoded
  /\ decoded' = NKE_DecodeCookie(server_keys, sealed.cookie)
  /\ call' = [op |-> "NKE_DecodeCookie", inst |-> "none", r |-> "sealed",
              n |-> NKE_DecodeCookie(server_keys, sealed.cookie).ret,
              key_id |-> BytesU32(SubSeq(sealed.cookie.cookie, 1, 4))]
  /\ UNCHANGED <<server_keys, current_server_key, keys_drawn, sealed>>
  /\ UNCHANGED <<inst, conn_log, codecVars, poolVars, ntsVars>>

\* Key ids of cookies the server never issued
ForgedIds == {0, 2, 3, 4}

\* Cookies made without the server: a key id of ForgedIds and a ciphertext
\* computed with the zero-initialised SIV context
ForgedCookies ==
  {[length |-> SERVER_COOKIE_SIZE,
    cookie |-> U32Bytes(id) \o nonce
                 \o SivEncrypt(0, nonce, CHOOSE p \in Plaintexts : TRUE)] :
     id \in ForgedIds, nonce \in Nonces}

\* A cookie of ForgedCookies comes in and is opened; decoded keeps the
\* result for the sealed cookie, call has the value returned for this one.
OpenForgedCookie ==
  /\ \E c \in ForgedCookies :
       call' = [op |-> "NKE_DecodeCookie", inst |-> "none", r |-> "forged",
                n |-> NKE_DecodeCookie(server_keys, c).ret,
                key_id |-> BytesU32(SubSeq(c.cookie, 1, 4))]
  /\ UNCHANGED <<server_keys, current_server_key, keys_drawn, sealed, decoded>>
  /\ UNCHANGED <<inst, conn_log, codecVars, poolVars, ntsVars>>

(***************************************************************************)
(* Request and response messages                                           *)
(***************************************************************************)
\* prepare_request: [ret, message]
prepare_request(m) ==
  LET a1 == add_record(reset_message(m), 1, RECORD_NEXT_PROTOCOL,
                       htons(NEXT_PROTOCOL_NTPV4), 2)
      a2 == add_record(a1.message, 1, RECORD_AEAD_ALGORITHM,
                       htons(AEAD_AES_SIV_CMAC_256), 2)
      a3 == add_record(a2.message, 1, RECORD_END_OF_MESSAGE, << >>, 0)
  IN  IF a1.ret = 0 THEN [ret |-> 0, message |-> a1.message]
      ELSE IF a2.ret = 0 THEN [ret |-> 0, message |-> a2.message]
      ELSE IF a3.ret = 0 THEN [ret |-> 0, message |-> a3.message]
      ELSE [ret |-> 1, message |-> a3.message]

\* What a call of process_request finds outside the instance:
\*   keys_ok  whether NKE_GetKeys (the TLS exporter) succeeds
\*   c2s,s2c  the keys it exports
\*   port     CNF_GetNTPPort()
\*   nonces   the nonces drawn for the cookies, in order
\*   keys,current  the server key ring
RequestEnv(keys_ok, c2s, s2c, port, nonces, keys, current) ==
  [keys_ok |-> keys_ok, c2s |-> c2s, s2c |-> s2c, port |-> port, nonces |-> nonces,
   keys |-> keys, current |-> current]

\* The cookie loop of prepare_response, from cookie i on: [ret, message]
RECURSIVE AddCookies(_, _, _)
AddCookies(m, i, env) ==
  IF i >= MAX_COOKIES THEN [ret |-> 1, message |-> m]
  ELSE
    LET g == NKE_GenerateCookie(env.keys, env.current, env.c2s, env.s2c, env.nonces[i + 1])
        a == add_record(m, 0, RECORD_COOKIE, g.cookie.cookie, g.cookie.length)
    IN  IF g.ret = 0 THEN [ret |-> 0, message |-> m]
        ELSE IF a.ret = 0 THEN [ret |-> 0, message |-> a.message]
        ELSE AddCookies(a.message, i + 1, env)

\* The tail of prepare_response: the End-of-Message record
AddEndOfMessage(m) == add_record(m, 1, RECORD_END_OF_MESSAGE, << >>, 0)

\* prepare_response: [ret, message]
prepare_response(m, error, next_protocol, aead_algorithm, env) ==
  LET m0 == reset_message(m)
  IN
  IF error # ERROR_NONE
  THEN LET a == add_record(m0, 1, RECORD_ERROR, htons(error), 2)
       IN  IF a.ret = 0 THEN a ELSE AddEndOfMessage(a.message)
  ELSE
    LET a1 == add_record(m0, 1, RECORD_NEXT_PROTOCOL, htons(next_protocol), 2)
        a2 == add_record(a1.message, 1, RECORD_AEAD_ALGORITHM, htons(aead_algorithm), 2)
        a3 == IF env.port # NTP_PORT
              THEN add_record(a2.message, 1, RECORD_NTPV4_PORT_NEGOTIATION, htons(env.port), 2)
              ELSE [ret |-> 1, message |-> a2.message]
        ck == AddCookies(a3.message, 0, env)
    IN  IF a1.ret = 0 THEN a1
        ELSE IF a2.ret = 0 THEN a2
        ELSE IF a3.ret = 0 THEN a3
        ELSE IF env.keys_ok = 0 THEN [ret |-> 0, message |-> a3.message]
        ELSE IF ck.ret = 0 THEN ck
        ELSE AddEndOfMessage(ck.message)

\* Whether one of the first n 16-bit values of a record body equals v
OffersValue(body, n, v) == \E i \in 0..(n - 1) : ntohs(SubSeq(body, 2 * i + 1, 2 * i + 2)) = v

\* The switch of process_request on one record g (a get_record result);
\* st = [next_protocol, aead_algorithm, error, has_next_protocol]
RequestRecord(st, g) ==
  LET n == MIN(g.body_length, MAX_RECORD_BODY_LENGTH) \div 2
  IN
  CASE g.type = RECORD_NEXT_PROTOCOL ->
         IF g.critical = 0 \/ g.body_length < 2 \/ g.body_length % 2 # 0
         THEN [st EXCEPT !.error = ERROR_BAD_REQUEST]
         ELSE [st EXCEPT !.next_protocol =
                           IF OffersValue(g.body, n, NEXT_PROTOCOL_NTPV4)
                           THEN NEXT_PROTOCOL_NTPV4 ELSE st.next_protocol,
                         !.has_next_protocol = 1]
    [] g.type = RECORD_AEAD_ALGORITHM ->
         IF g.body_length < 2 \/ g.body_length % 2 # 0
         THEN [st EXCEPT !.error = ERROR_BAD_REQUEST]
         ELSE [st EXCEPT !.aead_algorithm =
                           IF OffersValue(g.body, n, AEAD_AES_SIV_CMAC_256)
                           THEN AEAD_AES_SIV_CMAC_256 ELSE st.aead_algorithm]
    [] g.type \in {RECORD_ERROR, RECORD_WARNING, RECORD_COOKIE} ->
         [st EXCEPT !.error = ERROR_BAD_REQUEST]
    [] g.type = RECORD_END_OF_MESSAGE -> st
    [] OTHER ->
         IF g.critical # 0 THEN [st EXCEPT !.error = ERROR_UNRECOGNIZED_CRITICAL_RECORD]
         ELSE st

\* The while loop of process_request: [message, st]
RECURSIVE RequestLoop(_, _)
RequestLoop(m, st) ==
  IF st.error # ERROR_NONE THEN [message |-> m, st |-> st]
  ELSE
    LET g == get_record(m, MAX_RECORD_BODY_LENGTH)
    IN  IF g.ret = 0 THEN [message |-> m, st |-> st]
        ELSE RequestLoop(g.message, RequestRecord(st, g))

process_request_no_presence_check(m, env) ==
  LET l == RequestLoop(reset_message_parsing(m),
                       [next_protocol |-> NEXT_PROTOCOL_NONE, aead_algorithm |-> AEAD_NONE,
                        error |-> ERROR_NONE, has_next_protocol |-> 0])
      p == prepare_response(l.message, l.st.error, l.st.next_protocol,
                            l.st.aead_algorithm, env)
  IN  [ret |-> 1, message |-> p.message]

\* process_request: [ret, message]; the value of prepare_response is dropped.
process_request(m, env) ==
  LET l == RequestLoop(reset_message_parsing(m),
                       [next_protocol |-> NEXT_PROTOCOL_NONE, aead_algorithm |-> AEAD_NONE,
                        error |-> ERROR_NONE, has_next_protocol |-> 0])
      error == IF l.st.has_next_protocol = 0 THEN ERROR_BAD_REQUEST ELSE l.st.error
      p == prepare_response(l.message, error, l.st.next_protocol, l.st.aead_algorithm, env)
  IN  [ret |-> 1, message |-> p.message]

(***************************************************************************)
(* The connections                                                         *)
(*                                                                         *)
(* inst[i] holds the fields of the instance and, for its descriptor, what  *)
(* the scheduler and the OS hold: events (the events its file handler is   *)
(* registered for, {} when no handler is registered), timer (1 while a     *)
(* session_timeout is queued) and open (1 while the socket is open).       *)
(* Two history fields record what the connection has done: processed       *)
(* counts the calls of process_request since the connection began and      *)
(* request is the buffer the last of them was given.  conn_log[i].sent     *)
(* counts the bytes gnutls_record_send has taken since it began.           *)
(***************************************************************************)
ClientInsts == {"cli"}

ServerInsts == {"srv"}

Insts == ClientInsts \cup ServerInsts

\* The descriptor socket() or accept() gives the instance
SockFd(i) == IF i \in ClientInsts THEN 5 ELSE 6

\* NKE_CreateInstance
NKE_CreateInstance ==
  [mode |-> KE_UNKNOWN, state |-> KE_CLOSED, sock_fd |-> INVALID_SOCK_FD, session |-> 0,
   timeout_id |-> 0, message |-> NewMessage,
   events |-> {}, timer |-> 0, open |-> 0,
   processed |-> 0, request |-> NewMessage, freed |-> 0]

NewLog == [sent |-> 0]

NoCall == [op |-> "none", inst |-> "none", r |-> "none", n |-> 0]

Call(op, i, r, n) == [op |-> op, inst |-> i, r |-> r, n |-> n]

SetOutputEvent_never(events, enable) == events \ {SCH_FILE_OUTPUT}

\* SCH_SetFileHandlerEvent(fd, SCH_FILE_OUTPUT, enable)
SetOutputEvent(events, enable) ==
  IF enable # 0 THEN events \cup {SCH_FILE_OUTPUT} ELSE events \ {SCH_FILE_OUTPUT}

close_connection_keeps_state(I) ==
  IF I.state = KE_CLOSED THEN I
  ELSE LET I1 == [I EXCEPT !.timer = 0, !.timeout_id = 0]
       IN  IF I1.sock_fd # INVALID_SOCK_FD
           THEN [I1 EXCEPT !.events = {}, !.open = 0, !.sock_fd = INVALID_SOCK_FD]
           ELSE I1

close_connection_keeps_timeout(I) ==
  IF I.state = KE_CLOSED THEN I
  ELSE LET I2 == IF I.sock_fd # INVALID_SOCK_FD
                 THEN [I EXCEPT !.events = {}, !.open = 0, !.sock_fd = INVALID_SOCK_FD]
                 ELSE I
       IN  [I2 EXCEPT !.state = KE_CLOSED]

\* close_connection
close_connection(I) ==
  IF I.state = KE_CLOSED THEN I
  ELSE LET I1 == [I EXCEPT !.timer = 0, !.timeout_id = 0]
           I2 == IF I1.sock_fd # INVALID_SOCK_FD
                 THEN [I1 EXCEPT !.events = {}, !.open = 0, !.sock_fd = INVALID_SOCK_FD]
                 ELSE I1
       IN  [I2 EXCEPT !.state = KE_CLOSED]

\* The tail of update_state: the new state and the output event
EnterState(I, next_state, enable_output) ==
  [I EXCEPT !.state = next_state, !.events = SetOutputEvent(I.events, enable_output)]

\* The instance once process_request has run on its buffer and returned p
Processed(I, p) ==
  [I EXCEPT !.message = p.message, !.processed = @ + 1, !.request = I.message]

ReceiveServer_any_message(I, env) ==
  LET c == check_message_format(I.message)
      I1 == [I EXCEPT !.message = c.message]
  IN  IF c.ret = MSG_INCOMPLETE THEN I1
      ELSE LET p == process_request(I1.message, env)
           IN  IF p.ret # 0
               THEN EnterState(Processed(I1, p), KE_SEND, 1)
               ELSE close_connection(Processed(I1, p))

\* The KE_RECEIVE case of a server in update_state
ReceiveServer(I, env) ==
  LET c == check_message_format(I.message)
      I1 == [I EXCEPT !.message = c.message]
  IN  IF c.ret = MSG_INCOMPLETE THEN I1
      ELSE IF c.ret = MSG_OK
      THEN LET p == process_request(I1.message, env)
           IN  IF p.ret # 0
               THEN EnterState(Processed(I1, p), KE_SEND, 1)
               ELSE close_connection(Processed(I1, p))
      ELSE close_connection(I1)

\* The KE_RECEIVE case of a client in update_state
ReceiveClient(I) ==
  LET c == check_message_format(I.message)
      I1 == [I EXCEPT !.message = c.message]
  IN  IF c.ret = MSG_INCOMPLETE THEN I1
      ELSE IF c.ret = MSG_OK THEN EnterState(I1, KE_SHUTDOWN, 1)
      ELSE close_connection(I1)

\* update_state: alpn_ok is what check_alpn returns, env what process_request finds.
update_state(I, alpn_ok, env) ==
  IF I.mode = KE_SERVER
  THEN CASE I.state = KE_WAIT_CONNECT -> EnterState(I, KE_HANDSHAKE, 0)
         [] I.state = KE_HANDSHAKE ->
              IF alpn_ok = 0 THEN close_connection(I)
              ELSE EnterState(I, KE_RECEIVE, 0)
         [] I.state = KE_RECEIVE -> ReceiveServer(I, env)
         [] I.state = KE_SEND -> EnterState(I, KE_SHUTDOWN, 1)
         [] I.state = KE_SHUTDOWN -> close_connection(I)
  ELSE CASE I.state = KE_WAIT_CONNECT -> EnterState(I, KE_HANDSHAKE, 1)
         [] I.state = KE_HANDSHAKE ->
              IF alpn_ok = 0 THEN close_connection(I)
              ELSE LET p == prepare_request(I.message)
                       I1 == [I EXCEPT !.message = p.message]
                   IN  IF p.ret = 0 THEN close_connection(I1)
                       ELSE EnterState(I1, KE_SEND, 1)
         [] I.state = KE_SEND ->
              EnterState([I EXCEPT !.message = reset_message(I.message)], KE_RECEIVE, 0)
         [] I.state = KE_RECEIVE -> ReceiveClient(I)
         [] I.state = KE_SHUTDOWN -> close_connection(I)

(***************************************************************************)
(* What the peer and the TLS library may do                                *)
(***************************************************************************)
\* Pieces of a byte stream a peer may deliver with one gnutls_record_recv:
\* a critical Next-Protocol record offering NTPv4, a critical End-of-Message,
\* and the two halves of an End-of-Message.
RecvChunks == { <<128, 1, 0, 2, 0, 0>>, <<128, 0, 0, 0>>, <<128, 0>>, <<0, 0>> }

\* What one gnutls_record_recv may append to a buffer of m.length bytes:
\* a chunk cut to the space left, or nothing (r = 0, the peer has closed).
\* Chunks come while the buffer is short or has less than MaxRecvBytes left.
RecvResults(m) ==
  {SubSeq(c, 1, MIN(Len(c), MAX_MESSAGE_LENGTH - m.length)) :
     c \in {c \in RecvChunks : \/ m.length + Len(c) <= MaxRecvBytes
                                \/ m.length >= MAX_MESSAGE_LENGTH - MaxRecvBytes}}
    \cup {<< >>}

\* The do-while loop of the KE_RECEIVE case with at most k more iterations:
\* the set of [message, r], r the way the loop ends: "done" (no record
\* pending), "again" or "fatal" (gnutls_record_recv failed), "toolong"
RECURSIVE RecvLoop(_, _)
RecvLoop(m, k) ==
  IF m.length >= MAX_MESSAGE_LENGTH THEN {[message |-> m, r |-> "toolong"]}
  ELSE {[message |-> m, r |-> "again"], [message |-> m, r |-> "fatal"]}
       \cup UNION {
         LET m2 == [m EXCEPT !.eof = IF Len(c) = 0 THEN 1 ELSE m.eof,
                             !.data = SubSeq(m.data, 1, m.length) \o c,
                             !.length = m.length + Len(c)]
         IN  {[message |-> m2, r |-> "done"]}
               \cup (IF k > 1 THEN RecvLoop(m2, k - 1) ELSE {})
         : c \in RecvResults(m)}

\* Values of r >= 0 gnutls_record_send may return with n bytes left to send
SendSizes(n) == {0, n \div 2, n}

NtpPorts == {NTP_PORT, 11123}

\* The exporter keys of the TLS sessions
SessionKeys == {<<[length |-> KEY_SIZE, key |-> Fill(KEY_SIZE, 17)],
                  [length |-> KEY_SIZE, key |-> Fill(KEY_SIZE, 34)]>>}

\* The nonces drawn for the cookies of one response
CookieNonces == [1..MAX_COOKIES -> {Fill(NONCE_SIZE, 161)}]

RequestEnvs ==
  {RequestEnv(ok, k[1], k[2], port, nonces, server_keys, current_server_key) :
     ok \in {0, 1}, k \in SessionKeys, port \in NtpPorts, nonces \in CookieNonces}

\* Only the KE_RECEIVE case of a server reads the environment
EnvsFor(I) ==
  IF I.mode = KE_SERVER /\ I.state = KE_RECEIVE THEN RequestEnvs
  ELSE {CHOOSE env \in RequestEnvs : env.keys_ok = 1 /\ env.port = NTP_PORT}

(***************************************************************************)
(* Callbacks and entry points                                              *)
(***************************************************************************)
\* NKE_OpenClientConnection, called by get_nke_data on the instance it has
\* just created
NKE_OpenClientConnection(i) ==
  /\ i \in ClientInsts
  /\ inst[i].state = KE_CLOSED
  /\ inst[i].mode = KE_UNKNOWN
  /\ \E outcome \in {"no_socket", "no_session", "ok"} :
       /\ inst' = [inst EXCEPT ![i] =
            CASE outcome = "no_socket" -> @
              [] outcome = "no_session" -> [@ EXCEPT !.session = 0]
              [] OTHER -> [@ EXCEPT !.mode = KE_CLIENT, !.state = KE_WAIT_CONNECT,
                                    !.sock_fd = SockFd(i), !.session = 1,
                                    !.timeout_id = 1, !.timer = 1, !.open = 1,
                                    !.events = {SCH_FILE_INPUT, SCH_FILE_OUTPUT}]]
       /\ call' = Call("NKE_OpenClientConnection", i, outcome, 0)
       /\ conn_log' = IF outcome = "ok" THEN [conn_log EXCEPT ![i] = NewLog] ELSE conn_log
  /\ UNCHANGED <<codecVars, keyVars, poolVars, ntsVars>>

\* accept_connection taking the Closed instance of slot i, then
\* accept_server_connection with a session that can be created
accept_server_connection(i) ==
  /\ i \in ServerInsts
  /\ inst[i].state = KE_CLOSED
  /\ inst' = [inst EXCEPT ![i] =
       [@ EXCEPT !.mode = KE_SERVER, !.state = KE_HANDSHAKE, !.sock_fd = SockFd(i),
                 !.session = 1, !.timeout_id = 1, !.timer = 1, !.open = 1,
                 !.message = reset_message(@), !.events = {SCH_FILE_INPUT},
                 !.processed = 0, !.request = NewMessage]]
  /\ call' = Call("accept_server_connection", i, "ok", 0)
  /\ conn_log' = [conn_log EXCEPT ![i] = NewLog]
  /\ UNCHANGED <<codecVars, keyVars, poolVars, ntsVars>>

\* session_timeout: the scheduler takes the timeout off its queue and calls it
session_timeout(i) ==
  /\ i \in DOMAIN inst
  /\ inst[i].timer = 1
  /\ inst' = [inst EXCEPT ![i] = close_connection([@ EXCEPT !.timer = 0, !.timeout_id = 0])]
  /\ call' = Call("session_timeout", i, "none", 0)
  /\ UNCHANGED <<conn_log, codecVars, keyVars, poolVars, ntsVars>>

SendStep_no_wait(I, n, alpn_ok, env) ==
  update_state([I EXCEPT !.message.sent = @ + n], alpn_ok, env)

\* The KE_SEND case of read_write_socket once gnutls_record_send has sent n bytes
SendStep(I, n, alpn_ok, env) ==
  LET I1 == [I EXCEPT !.message.sent = @ + n]
  IN  IF I1.message.sent < I1.message.length THEN I1
      ELSE update_state(I1, alpn_ok, env)

\* The instance after read_write_socket(fd, event, inst) when the call of its
\* state returns r (n bytes sent, m the buffer after the receive loop)
AfterIO(I, event, r, n, m, dir, alpn_ok, env) ==
  CASE I.state = KE_WAIT_CONNECT ->
         IF event # SCH_FILE_OUTPUT THEN I
         ELSE IF r # "ok" THEN close_connection(I)
         ELSE update_state(I, alpn_ok, env)
    [] I.state \in {KE_HANDSHAKE, KE_SHUTDOWN} ->
         IF r = "fatal" THEN close_connection(I)
         ELSE IF r = "again" THEN [I EXCEPT !.events = SetOutputEvent(I.events, dir)]
         ELSE update_state(I, alpn_ok, env)
    [] I.state = KE_SEND ->
         IF r = "fatal" THEN close_connection(I)
         ELSE IF r = "again" THEN I
         ELSE SendStep(I, n, alpn_ok, env)
    [] I.state = KE_RECEIVE ->
         IF r = "toolong" \/ r = "fatal" THEN close_connection([I EXCEPT !.message = m])
         ELSE IF r = "again" THEN [I EXCEPT !.message = m]
         ELSE update_state([I EXCEPT !.message = m], alpn_ok, env)

\* What the calls made in the state of I may return: r and n of the call on
\* the socket or the session, the buffer m after the receive loop, dir of
\* gnutls_record_get_direction and alpn_ok of check_alpn where they are read
IOResult(r, n, m, dir, alpn_ok) == [r |-> r, n |-> n, m |-> m, dir |-> dir, alpn_ok |-> alpn_ok]

IOResults(I, event) ==
  CASE I.state = KE_WAIT_CONNECT ->
         IF event # SCH_FILE_OUTPUT THEN {IOResult("none", 0, I.message, 0, 1)}
         ELSE {IOResult(x, 0, I.message, 0, 1) : x \in {"ok", "fatal"}}
    [] I.state = KE_HANDSHAKE ->
         {IOResult("ok", 0, I.message, 0, a) : a \in {0, 1}}
           \cup {IOResult("again", 0, I.message, d, 1) : d \in {0, 1}}
           \cup {IOResult("fatal", 0, I.message, 0, 1)}
    [] I.state = KE_SHUTDOWN ->
         {IOResult("again", 0, I.message, d, 1) : d \in {0, 1}}
           \cup {IOResult(x, 0, I.message, 0, 1) : x \in {"ok", "fatal"}}
    [] I.state = KE_SEND ->
         {IOResult(x, 0, I.message, 0, 1) : x \in {"again", "fatal"}}
           \cup {IOResult("ok", k, I.message, 0, 1) :
                   k \in SendSizes(I.message.length - I.message.sent)}
    [] I.state = KE_RECEIVE ->
         {IOResult(x.r, 0, x.message, 0, 1) : x \in RecvLoop(I.message, MaxRecvLoop)}

\* read_write_socket: the scheduler calls the file handler of instance i
\* for an event it is registered for
read_write_socket(i) ==
  /\ inst[i].events # {}
  /\ inst[i].state # KE_CLOSED
  /\ LET I == inst[i]
     IN
     \E event \in I.events :
       \E io \in IOResults(I, event) :
         \E env \in EnvsFor(I) :
           /\ inst' = [inst EXCEPT ![i] =
                         AfterIO(I, event, io.r, io.n, io.m, io.dir, io.alpn_ok, env)]
           /\ call' = Call("read_write_socket", i, io.r, io.n)
           /\ conn_log' = [conn_log EXCEPT ![i].sent =
                               @ + (IF I.state = KE_SEND /\ io.r = "ok" THEN io.n ELSE 0)]
  /\ UNCHANGED <<codecVars, keyVars, poolVars, ntsVars>>

(***************************************************************************)
(* The server's pool of instances                                          *)
(*                                                                         *)
(* server_instances[k] is NullInst or the address of an instance; inst     *)
(* maps the addresses malloc has handed out to what their memory holds,    *)
(* and the field freed is 1 once Free has been called on that memory.      *)
(***************************************************************************)
NullInst == "NULL"

Slots == 0..(MAX_SERVER_INSTANCES - 1)

EmptyPool == [k \in Slots |-> NullInst]

\* The addresses of the heap, in the order malloc first hands them out
HeapAddrs == <<"srv", "srv1", "srv2", "srv3", "srv4", "srv5", "srv6", "srv7", "srv8", "srv9">>

\* MallocNew: an address never handed out before, or one that has been freed
MallocNew ==
  LET fresh == {n \in 1..Len(HeapAddrs) : HeapAddrs[n] \notin DOMAIN inst}
  IN  {HeapAddrs[n] : n \in {n \in fresh : \A o \in fresh : n <= o}}
        \cup {a \in DOMAIN inst : inst[a].freed = 1}

\* NKE_DestroyInstance
NKE_DestroyInstance(I) == [close_connection(I) EXCEPT !.freed = 1]

\* The slots whose pointer refers to freed memory
Dangling ==
  {k \in Slots : server_instances[k] # NullInst /\ inst[server_instances[k]].freed = 1}

\* The slots whose pointer Free has been called on since it was stored:
\* they refer to freed memory or to the instance of an earlier slot
Stale ==
  Dangling \cup {k \in Slots : server_instances[k] # NullInst /\
                    \E j \in Slots : j < k /\ server_instances[j] = server_instances[k]}

\* What the loop of accept_connection finds in slot k: "NULL", or the state
\* read through the pointer.  Freed memory holds the last state of the
\* instance unless it has been written since (k \in garbled).
SlotState(k, garbled) ==
  IF server_instances[k] = NullInst THEN "NULL"
  ELSE IF k \in Dangling /\ k \in garbled THEN "garbage"
  ELSE inst[server_instances[k]].state

\* The loop of accept_connection: the slot it stops at, -1 if it finds none
FindSlot(garbled) ==
  LET free == {k \in Slots : SlotState(k, garbled) \in {"NULL", KE_CLOSED}}
  IN  IF free = {} THEN -1 ELSE CHOOSE k \in free : \A j \in free : k <= j

\* accept_server_connection on instance I with descriptor fd: [ret, inst]
AcceptServer(I, fd, session_ok) ==
  IF session_ok = 0 THEN [ret |-> 0, inst |-> [I EXCEPT !.session = 0]]
  ELSE [ret |-> 1,
        inst |-> [I EXCEPT !.mode = KE_SERVER, !.state = KE_HANDSHAKE, !.sock_fd = fd,
                           !.session = 1, !.timeout_id = 1, !.timer = 1, !.open = 1,
                           !.message = reset_message(@), !.events = {SCH_FILE_INPUT},
                           !.processed = 0, !.request = NewMessage]]

\* inst or conn_log with the entry of address a set to v
WithEntry(f, a, v) == [x \in DOMAIN f \cup {a} |-> IF x = a THEN v ELSE f[x]]

\* The instances of the pool that are Closed and not freed
ClosedInPool ==
  {a \in DOMAIN inst : inst[a].state = KE_CLOSED /\ inst[a].freed = 0}

\* accept_connection: the scheduler calls it for a connection on the
\* listening socket.  outcome names how far the call gets.
accept_connection ==
  \E outcome \in {"accept_failed", "denied", "no_nonblock", "no_session", "ok"},
     garbled \in SUBSET Dangling :
    LET k == FindSlot(garbled)
    IN
    /\ outcome = "no_session" => Cardinality(Stale) < MaxFreed
    /\ outcome = "no_nonblock" => Cardinality(ClosedInPool) < MaxClosed
    /\ IF outcome \in {"accept_failed", "denied"} \/ k = -1
       THEN /\ call' = Call("accept_connection", "none",
                            IF outcome \in {"accept_failed", "denied"} THEN outcome
                            ELSE "rejected", -1)
            /\ UNCHANGED <<inst, conn_log, server_instances>>
       ELSE \E a \in (IF server_instances[k] = NullInst THEN MallocNew
                      ELSE {server_instances[k]}) :
              LET I0 == IF server_instances[k] = NullInst THEN NKE_CreateInstance
                        ELSE inst[a]
                  r == AcceptServer(I0, SockFd(a), IF outcome = "ok" THEN 1 ELSE 0)
                  I1 == CASE outcome = "no_nonblock" -> I0
                          [] outcome = "no_session" -> NKE_DestroyInstance(r.inst)
                          [] OTHER -> r.inst
              IN  /\ inst' = WithEntry(inst, a, I1)
                  /\ conn_log' = WithEntry(conn_log, a, NewLog)
                  /\ server_instances' = [server_instances EXCEPT ![k] = a]
                  /\ call' = Call("accept_connection", a, outcome, k)
    /\ UNCHANGED <<codecVars, keyVars, ntsVars>>

(***************************************************************************)
(* The client's side of a response                                         *)
(***************************************************************************)
\* An NKE_Cookie whose storage is zeroed
ZeroCookie == [length |-> 0, cookie |-> << >>]

\* The address UTI_StringToIP accepts in the model: "1.2.3.4"
IpString == <<49, 46, 50, 46, 51, 46, 52>>

\* ResponseSwitch without its RECORD_WARNING case
ResponseSwitch_ignores_warning(st, g, max_cookies) ==
  CASE g.type = RECORD_NEXT_PROTOCOL ->
         IF g.critical = 0 \/ g.body_length # 2
            \/ ntohs(SubSeq(g.body, 1, 2)) # NEXT_PROTOCOL_NTPV4
         THEN [st EXCEPT !.error = ERROR_BAD_RESPONSE]
         ELSE [st EXCEPT !.next_protocol = NEXT_PROTOCOL_NTPV4]
    [] g.type = RECORD_AEAD_ALGORITHM ->
         IF g.body_length # 2 \/ ntohs(SubSeq(g.body, 1, 2)) # AEAD_AES_SIV_CMAC_256
         THEN [st EXCEPT !.error = ERROR_BAD_RESPONSE,
                         !.aead_algorithm = AEAD_AES_SIV_CMAC_256]
         ELSE [st EXCEPT !.aead_algorithm = AEAD_AES_SIV_CMAC_256]
    [] g.type = RECORD_ERROR -> [st EXCEPT !.error = ERROR_BAD_RESPONSE]
    [] g.type = RECORD_WARNING -> st
    [] g.type = RECORD_COOKIE ->
         IF g.body_length <= NKE_MAX_COOKIE_LENGTH /\ st.num_cookies < max_cookies
         THEN [st EXCEPT !.cookies[st.num_cookies] =
                            [length |-> g.body_length, cookie |-> g.body],
                         !.num_cookies = @ + 1]
         ELSE st
    [] g.type = RECORD_END_OF_MESSAGE -> st
    [] g.type = RECORD_NTPV4_SERVER_NEGOTIATION ->
         IF g.body_length < 2 \/ g.body_length >= MAX_RECORD_BODY_LENGTH + 1
            \/ g.body # IpString
         THEN [st EXCEPT !.error = ERROR_BAD_RESPONSE]
         ELSE st
    [] g.type = RECORD_NTPV4_PORT_NEGOTIATION ->
         IF g.body_length # 2 THEN [st EXCEPT !.error = ERROR_BAD_RESPONSE]
         ELSE st
    [] OTHER ->
         IF g.critical # 0 THEN [st EXCEPT !.error = 1] ELSE st

\* The switch of process_response on one record g (a get_record result);
\* st = [next_protocol, aead_algorithm, error, num_cookies, cookies]
ResponseSwitch(st, g, max_cookies) ==
  CASE g.type = RECORD_NEXT_PROTOCOL ->
         IF g.critical = 0 \/ g.body_length # 2
            \/ ntohs(SubSeq(g.body, 1, 2)) # NEXT_PROTOCOL_NTPV4
         THEN [st EXCEPT !.error = ERROR_BAD_RESPONSE]
         ELSE [st EXCEPT !.next_protocol = NEXT_PROTOCOL_NTPV4]
    [] g.type = RECORD_AEAD_ALGORITHM ->
         IF g.body_length # 2 \/ ntohs(SubSeq(g.body, 1, 2)) # AEAD_AES_SIV_CMAC_256
         THEN [st EXCEPT !.error = ERROR_BAD_RESPONSE,
                         !.aead_algorithm = AEAD_AES_SIV_CMAC_256]
         ELSE [st EXCEPT !.aead_algorithm = AEAD_AES_SIV_CMAC_256]
    [] g.type \in {RECORD_ERROR, RECORD_WARNING} ->
         [st EXCEPT !.error = ERROR_BAD_RESPONSE]
    [] g.type = RECORD_COOKIE ->
         IF g.body_length <= NKE_MAX_COOKIE_LENGTH /\ st.num_cookies < max_cookies
         THEN [st EXCEPT !.cookies[st.num_cookies] =
                            [length |-> g.body_length, cookie |-> g.body],
                         !.num_cookies = @ + 1]
         ELSE st
    [] g.type = RECORD_END_OF_MESSAGE -> st
    [] g.type = RECORD_NTPV4_SERVER_NEGOTIATION ->
         IF g.body_length < 2 \/ g.body_length >= MAX_RECORD_BODY_LENGTH + 1
            \/ g.body # IpString
         THEN [st EXCEPT !.error = ERROR_BAD_RESPONSE]
         ELSE st
    [] g.type = RECORD_NTPV4_PORT_NEGOTIATION ->
         IF g.body_length # 2 THEN [st EXCEPT !.error = ERROR_BAD_RESPONSE]
         ELSE st
    [] OTHER ->
         IF g.critical # 0 THEN [st EXCEPT !.error = 1] ELSE st

\* The while loop of process_response: [message, st]
RECURSIVE ResponseLoop(_, _, _)
ResponseLoop(m, st, max_cookies) ==
  IF st.error # ERROR_NONE THEN [message |-> m, st |-> st]
  ELSE
    LET g == get_record(m, NKE_MAX_COOKIE_LENGTH)
    IN  IF g.ret = 0 THEN [message |-> m, st |-> st]
        ELSE ResponseLoop(g.message, ResponseSwitch(st, g, max_cookies), max_cookies)

\* process_response with addr = port = NULL: [ret, cookies, message]
process_response(m, cookies, max_cookies) ==
  LET l == ResponseLoop(reset_message_parsing(m),
                        [next_protocol |-> NEXT_PROTOCOL_NONE, aead_algorithm |-> AEAD_NONE,
                         error |-> ERROR_NONE, num_cookies |-> 0, cookies |-> cookies],
                        max_cookies)
  IN  [ret |-> IF l.st.next_protocol # NEXT_PROTOCOL_NTPV4
                  \/ l.st.aead_algorithm # AEAD_AES_SIV_CMAC_256
                  \/ l.st.error # ERROR_NONE
               THEN 0 ELSE l.st.num_cookies,
       cookies |-> l.st.cookies,
       message |-> l.message]

\* NKE_GetCookies: [ret, cookies, message]
NKE_GetCookies(I, cookies, max_cookies) ==
  IF I.mode # KE_CLIENT /\ I.state # KE_CLOSED
  THEN [ret |-> 0, cookies |-> cookies, message |-> I.message]
  ELSE process_response(I.message, cookies, max_cookies)

(***************************************************************************)
(* The NTS client                                                          *)
(*                                                                         *)
(* nts is the NTS_ClientInstance_Record; its field nke is NullInst or the  *)
(* address of its NKE instance in inst.  nts_log is history: drawn counts  *)
(* the draws of uniq_id and nonce, response holds the records of the       *)
(* buffer the last NKE_GetCookies call read.                               *)
(***************************************************************************)
NONCE_LENGTH == 16

UNIQ_ID_LENGTH == 32

\* The request that was never built, for the history
NoRequest == [uniq_id |-> << >>, nonce |-> << >>, key |-> << >>]

\* The address MallocNew gives the client's NKE instance
ClientNke == CHOOSE a \in ClientInsts : TRUE

\* NTS_CreateClientInstance
NTS_CreateClientInstance ==
  [nke |-> NullInst,
   cookies |-> [k \in 0..(MAX_COOKIES - 1) |-> ZeroCookie],
   num_cookies |-> 0, cookie_index |-> 0,
   siv_c2s |-> Fill(KEY_SIZE, 0), siv_s2c |-> Fill(KEY_SIZE, 0),
   nonce |-> Fill(NONCE_LENGTH, 0), uniq_id |-> Fill(UNIQ_ID_LENGTH, 0)]

NewNtsLog ==
  [drawn |-> 0, response |-> << >>,
   before |-> [num_cookies |-> 0, cookie_index |-> 0],
   used |-> << >>, prev |-> NoRequest, last |-> NoRequest]

\* An NTP_Packet with its NTP_PacketInfo before anything is stored in it:
\* header stands for the 48 bytes of the NTP header, fields for the
\* extension fields that follow it
NoPacket == [mode |-> "none", header |-> 0, fields |-> << >>]

needs_nke(C) == C.num_cookies = 0

\* NKE_OpenClientConnection on instance I: [ret, inst]
OpenClient(I, fd, outcome) ==
  CASE outcome = "no_socket" -> [ret |-> 0, inst |-> I]
    [] outcome = "no_session" -> [ret |-> 0, inst |-> [I EXCEPT !.session = 0]]
    [] OTHER ->
         [ret |-> 1,
          inst |-> [I EXCEPT !.mode = KE_CLIENT, !.state = KE_WAIT_CONNECT,
                             !.sock_fd = fd, !.session = 1,
                             !.timeout_id = 1, !.timer = 1, !.open = 1,
                             !.events = {SCH_FILE_INPUT, SCH_FILE_OUTPUT}]]

(***************************************************************************)
(* Spec: one connection, of the client instance or of a server slot, with  *)
(* a peer that may send anything of RecvChunks and close at any time.      *)
(* inst holds the instances that exist; connections share no state that    *)
(* they write, so one instance at a time shows what each can do.           *)
(***************************************************************************)
Init ==
  /\ message = NewMessage
  /\ records = << >>
  /\ added = 0
  /\ out = << >>
  /\ fmt = "none"
  /\ pc = "append"
  /\ \E rand \in RandomIds :
       /\ server_keys = InitialKeyRing(rand).server_keys
       /\ current_server_key = InitialKeyRing(rand).current_server_key
  /\ keys_drawn = 1
  /\ sealed = NoCookie
  /\ decoded = NotDecoded
  /\ \E a \in Insts :
       /\ inst = [i \in {a} |-> NKE_CreateInstance]
       /\ conn_log = [i \in {a} |-> NewLog]
       /\ server_instances = [k \in Slots |-> IF k = 0 /\ a \in ServerInsts THEN a ELSE NullInst]
  /\ call = NoCall
  /\ nts = NTS_CreateClientInstance
  /\ packet = << >>
  /\ nts_log = NewNtsLog
  /\ request = NoPacket
  /\ response = NoPacket

Next ==
  \/ \E i \in DOMAIN inst : NKE_OpenClientConnection(i)
  \/ \E i \in DOMAIN inst : accept_server_connection(i)
  \/ \E i \in DOMAIN inst : session_timeout(i)
  \/ \E i \in DOMAIN inst : read_write_socket(i)

Spec == Init /\ [][Next]_vars

\* The scheduler calls every timeout left on its queue when its delay
\* has passed
FairSpec == Init /\ [][Next]_vars /\ \A i \in Insts : WF_vars(session_timeout(i))

(***************************************************************************)
(* SpecPool: the pool under accepted connections and timeouts; what a      *)
(* connection does between the two is in Spec                              *)
(***************************************************************************)
InitPool ==
  /\ message = NewMessage
  /\ records = << >>
  /\ added = 0
  /\ out = << >>
  /\ fmt = "none"
  /\ pc = "append"
  /\ \E rand \in {3} :
       /\ server_keys = InitialKeyRing(rand).server_keys
       /\ current_server_key = InitialKeyRing(rand).current_server_key
  /\ keys_drawn = 1
  /\ sealed = NoCookie
  /\ decoded = NotDecoded
  /\ inst = [i \in {} |-> NKE_CreateInstance]
  /\ conn_log = [i \in {} |-> NewLog]
  /\ call = NoCall
  /\ server_instances = EmptyPool
  /\ nts = NTS_CreateClientInstance
  /\ packet = << >>
  /\ nts_log = NewNtsLog
  /\ request = NoPacket
  /\ response = NoPacket

PoolTimeout ==
  /\ Cardinality(ClosedInPool) < MaxClosed
  /\ \E i \in DOMAIN inst : session_timeout(i)

NextPool == accept_connection \/ PoolTimeout

SpecPool == InitPool /\ [][NextPool]_vars

(***************************************************************************)
(* SpecCodec: the codec bench over every input of up to MaxRecords records *)
(***************************************************************************)
InitCodec ==
  /\ message = NewMessage
  /\ records \in RecordSeqs(MaxRecords)
  /\ added = 0
  /\ out = << >>
  /\ fmt = "none"
  /\ pc = "append"
  /\ \E rand \in {3} :
       /\ server_keys = InitialKeyRing(rand).server_keys
       /\ current_server_key = InitialKeyRing(rand).current_server_key
  /\ keys_drawn = 1
  /\ sealed = NoCookie
  /\ decoded = NotDecoded
  /\ inst = [i \in Insts |-> NKE_CreateInstance]
  /\ conn_log = [i \in Insts |-> NewLog]
  /\ call = NoCall
  /\ server_instances = EmptyPool
  /\ nts = NTS_CreateClientInstance
  /\ packet = << >>
  /\ nts_log = NewNtsLog
  /\ request = NoPacket
  /\ response = NoPacket

NextCodec == AddRecord \/ SetEof \/ CheckFormat \/ StartIterate \/ GetRecord

SpecCodec == InitCodec /\ [][NextCodec]_vars

(***************************************************************************)
(* SpecKeys: rotations of the key ring around one observed cookie          *)
(***************************************************************************)
InitKeys ==
  /\ message = NewMessage
  /\ records = << >>
  /\ added = 0
  /\ out = << >>
  /\ fmt = "none"
  /\ pc = "append"
  /\ \E rand \in RandomIds :
       /\ server_keys = InitialKeyRing(rand).server_keys
       /\ current_server_key = InitialKeyRing(rand).current_server_key
  /\ keys_drawn = 1
  /\ sealed = NoCookie
  /\ decoded = NotDecoded
  /\ inst = [i \in Insts |-> NKE_CreateInstance]
  /\ conn_log = [i \in Insts |-> NewLog]
  /\ call = NoCall
  /\ server_instances = EmptyPool
  /\ nts = NTS_CreateClientInstance
  /\ packet = << >>
  /\ nts_log = NewNtsLog
  /\ request = NoPacket
  /\ response = NoPacket

NextKeys == server_key_timeout \/ SealCookie \/ OpenCookie \/ OpenForgedCookie

SpecKeys == InitKeys /\ [][NextKeys]_vars

(***************************************************************************)
(* Properties of the record codec (checked under SpecCodec)                *)
(***************************************************************************)
IsEndOfMessage(r) == r.critical = 1 /\ r.type = RECORD_END_OF_MESSAGE /\ r.body = << >>

RecordTuple(r) ==
  [critical |-> r.critical, type |-> r.type, body_length |-> Len(r.body), body |-> r.body]

\* The buffer that was validated holds exactly the first `added` records.
Validated == fmt # "none"

\* C2 (as claimed): a buffer of complete records whose last record is not a
\* critical empty End-of-Message validates as Incomplete while eof is unset
\* and as Error once eof is set.
C2_WholeRecordsIncomplete ==
  (Validated /\ added > 0 /\ ~IsEndOfMessage(records[added]))
    => fmt = (IF message.eof = 0 THEN MSG_INCOMPLETE ELSE MSG_ERROR)

C4_SingleEndOfMessage ==
  (Validated /\ added = Len(records) /\ added > 0 /\ IsEndOfMessage(records[added]))
    => LET noEarlier == \A i \in 1..(added - 1) : records[i].type # RECORD_END_OF_MESSAGE
       IN  fmt = (IF noEarlier THEN MSG_OK ELSE MSG_ERROR)

\* C5: appending records to a reset buffer and iterating from parsed = 0
\* yields the same (critical, type, body length, body) tuples in the same
\* order, and the iteration ends with parsed = length.
C5_RoundTrip ==
  /\ pc = "iterate" => /\ Len(out) <= added
                       /\ \A i \in 1..Len(out) : out[i] = RecordTuple(records[i])
  /\ pc = "done" => /\ out = [i \in 1..added |-> RecordTuple(records[i])]
                    /\ message.parsed = message.length

C5_Witness ==
  /\ pc = "done"
  /\ added = 2
  /\ out[1].critical = 1 /\ out[1].type = 32767 /\ out[1].body = <<0, 15>>
  /\ out[2].body_length = 258

(***************************************************************************)
(* Properties of the key ring (checked under SpecKeys)                     *)
(***************************************************************************)
\* Rotations since the observed cookie was sealed
RotationsSinceSeal == keys_drawn - sealed.at

\* C6: a cookie sealed with the current key opens to exactly the sealed
\* (C2S, S2C) after zero, one, two or three rotations since sealing.
C6_SealOpenRoundTrip ==
  (sealed # NoCookie /\ decoded # NotDecoded /\ RotationsSinceSeal <= MAX_SERVER_KEYS - 1)
    => decoded = [ret |-> 1, c2s |-> sealed.c2s, s2c |-> sealed.s2c]

C6_Witness ==
  /\ sealed # NoCookie
  /\ RotationsSinceSeal = MAX_SERVER_KEYS - 1
  /\ sealed.c2s # sealed.s2c
  /\ decoded # NotDecoded
  /\ decoded.ret = 1

\* C7: after four or more rotations since a cookie was sealed, opening it fails.
C7_ExpiredCookieFails ==
  (sealed # NoCookie /\ decoded # NotDecoded /\ RotationsSinceSeal >= MAX_SERVER_KEYS)
    => decoded.ret = 0

C7_Witness ==
  /\ sealed # NoCookie
  /\ RotationsSinceSeal >= MAX_SERVER_KEYS
  /\ BytesU32(SubSeq(sealed.cookie.cookie, 1, 4))
       = server_keys[BytesU32(SubSeq(sealed.cookie.cookie, 1, 4)) % MAX_SERVER_KEYS].id
  /\ decoded # NotDecoded
  /\ decoded.ret = 0

(***************************************************************************)
(* SpecRequest: the server's answer to every request over RequestRecords   *)
(* of up to MaxRequestRecords records before its End-of-Message            *)
(***************************************************************************)
Rec(critical, type, body) == [critical |-> critical, type |-> type, body |-> body]

EndOfMessage == Rec(1, RECORD_END_OF_MESSAGE, << >>)

\* A record type process_request has no case for
UNKNOWN_RECORD_TYPE == 9

\* The records a client may put into a request
RequestRecords ==
  { Rec(1, RECORD_NEXT_PROTOCOL, htons(NEXT_PROTOCOL_NTPV4)),
    Rec(1, RECORD_NEXT_PROTOCOL, <<0, 1>>),
    Rec(1, RECORD_NEXT_PROTOCOL, <<0, 1, 0, 0>>),
    Rec(0, RECORD_NEXT_PROTOCOL, htons(NEXT_PROTOCOL_NTPV4)),
    Rec(1, RECORD_NEXT_PROTOCOL, <<0>>),
    Rec(1, RECORD_AEAD_ALGORITHM, htons(AEAD_AES_SIV_CMAC_256)),
    Rec(0, RECORD_AEAD_ALGORITHM, <<0, 14>>),
    Rec(1, RECORD_AEAD_ALGORITHM, <<15>>),
    Rec(1, RECORD_ERROR, htons(ERROR_BAD_REQUEST)),
    Rec(0, RECORD_WARNING, <<0, 0>>),
    Rec(0, RECORD_COOKIE, <<7>>),
    Rec(1, UNKNOWN_RECORD_TYPE, << >>),
    Rec(0, UNKNOWN_RECORD_TYPE, << >>),
    EndOfMessage }

\* The requests: records of RequestRecords, then End-of-Message
Requests ==
  {s \o <<EndOfMessage>> : s \in UNION {[1..k -> RequestRecords] : k \in 0..MaxRequestRecords}}

\* The buffer after add_record has taken the records recs in order
RECURSIVE BuildMessage(_, _)
BuildMessage(m, recs) ==
  IF recs = << >> THEN m
  ELSE LET r == Head(recs)
       IN  BuildMessage(add_record(m, r.critical, r.type, r.body, Len(r.body)).message,
                        Tail(recs))

\* The records get_record yields from the buffer m until it returns 0
RECURSIVE MessageRecords(_)
MessageRecords(m) ==
  LET g == get_record(m, MAX_RECORD_BODY_LENGTH)
  IN  IF g.ret = 0 THEN << >>
      ELSE <<[critical |-> g.critical, type |-> g.type,
              body_length |-> g.body_length, body |-> g.body]>>
             \o MessageRecords(g.message)

InitRequest ==
  /\ records \in Requests
  /\ message = BuildMessage(NewMessage, records)
  /\ added = Len(records)
  /\ out = << >>
  /\ fmt = "none"
  /\ pc = "request"
  /\ \E rand \in {3} :
       /\ server_keys = InitialKeyRing(rand).server_keys
       /\ current_server_key = InitialKeyRing(rand).current_server_key
  /\ keys_drawn = 1
  /\ sealed = NoCookie
  /\ decoded = NotDecoded
  /\ inst = [i \in Insts |-> NKE_CreateInstance]
  /\ conn_log = [i \in Insts |-> NewLog]
  /\ call = NoCall
  /\ server_instances = EmptyPool
  /\ nts = NTS_CreateClientInstance
  /\ packet = << >>
  /\ nts_log = NewNtsLog
  /\ request = NoPacket
  /\ response = NoPacket

\* The KE_RECEIVE case of a server on the buffer: check_message_format, then
\* process_request in the environment env; out is the response it leaves
ProcessRequest ==
  /\ pc = "request"
  /\ LET c == check_message_format(message)
     IN  /\ c.ret = MSG_OK
         /\ fmt' = c.ret
         /\ \E env \in RequestEnvs :
              LET p == process_request(c.message, env)
              IN  /\ message' = p.message
                  /\ out' = MessageRecords(reset_message_parsing(p.message))
                  /\ call' = Call("process_request", "none",
                                  IF env.keys_ok = 1 THEN "ok" ELSE "no_keys", env.port)
  /\ pc' = "response"
  /\ UNCHANGED <<records, added, inst, conn_log>>
  /\ UNCHANGED <<keyVars, poolVars, ntsVars>>

NextRequest == ProcessRequest

SpecRequest == InitRequest /\ [][NextRequest]_vars

\* get_nke_data on client C with the instances insts.  outcome is what
\* NKE_OpenClientConnection meets, keys_ok and keys what NKE_GetKeys gives.
\* [nts, inst, polled]: polled is 1 when NKE_GetCookies was called
get_nke_data(C, insts, outcome, keys_ok, keys) ==
  LET o == OpenClient(NKE_CreateInstance, SockFd(ClientNke), outcome)
      created == C.nke = NullInst
      insts1 == IF created THEN WithEntry(insts, ClientNke, o.inst) ELSE insts
      C1 == IF created THEN [C EXCEPT !.nke = ClientNke] ELSE C
  IN
  IF created /\ o.ret = 0
  THEN [nts |-> C,
        inst |-> WithEntry(insts, ClientNke, NKE_DestroyInstance(o.inst)),
        polled |-> 0]
  ELSE
    LET g == NKE_GetCookies(insts1[C1.nke], C1.cookies, MAX_COOKIES)
        C2 == [C1 EXCEPT !.cookie_index = 0, !.num_cookies = g.ret, !.cookies = g.cookies]
        insts2 == [insts1 EXCEPT ![C1.nke].message = g.message]
    IN  IF C2.num_cookies = 0 THEN [nts |-> C2, inst |-> insts2, polled |-> 1]
        ELSE IF keys_ok = 0
        THEN [nts |-> [C2 EXCEPT !.num_cookies = 0], inst |-> insts2, polled |-> 1]
        ELSE [nts |-> [C2 EXCEPT !.siv_c2s = keys[1].key, !.siv_s2c = keys[2].key,
                                 !.nke = NullInst],
              inst |-> [insts2 EXCEPT ![C1.nke] = NKE_DestroyInstance(@)],
              polled |-> 1]

\* UTI_GetRandomBytes: the bytes of the d-th draw
RandomBytes(n, d) == Fill(n, d)

\* NTS_PrepareForAuth
NTS_PrepareForAuth ==
  /\ IF ~needs_nke(nts)
     THEN /\ call' = Call("NTS_PrepareForAuth", "none", "none", 1)
          /\ UNCHANGED <<nts, nts_log, inst, conn_log>>
     ELSE \E outcome \in {"no_socket", "no_session", "ok"}, keys_ok \in {0, 1},
             keys \in SessionKeys :
            /\ nts.nke # NullInst => outcome = "ok"
            /\ nts_log.drawn < MaxDraws
            /\ LET d == get_nke_data(nts, inst, outcome, keys_ok, keys)
                   ret == IF needs_nke(d.nts) THEN 0 ELSE 1
                   n == nts_log.drawn + 1
               IN  /\ nts' = IF ret = 0 THEN d.nts
                             ELSE [d.nts EXCEPT !.uniq_id = RandomBytes(UNIQ_ID_LENGTH, n),
                                                !.nonce = RandomBytes(NONCE_LENGTH, n)]
                   /\ inst' = d.inst
                   /\ conn_log' = [a \in DOMAIN d.inst |->
                                     IF a \in DOMAIN conn_log THEN conn_log[a] ELSE NewLog]
                   /\ nts_log' = [nts_log EXCEPT
                         !.drawn = IF ret = 1 THEN n ELSE @,
                         !.response = IF d.polled = 1
                                      THEN MessageRecords(reset_message_parsing(
                                             IF nts.nke = NullInst THEN NewMessage
                                             ELSE inst[nts.nke].message))
                                      ELSE @,
                         !.used = IF d.polled = 1 THEN << >> ELSE @]
                   /\ call' = Call("NTS_PrepareForAuth", "none", outcome, ret)
  /\ UNCHANGED <<packet, request, response>>
  /\ UNCHANGED <<codecVars, keyVars, poolVars>>

(***************************************************************************)
(* SpecResponse: the client reads every response over ResponseRecords of   *)
(* up to MaxResponseRecords records before its End-of-Message, received    *)
(* on a connection that validated it and was shut down                     *)
(***************************************************************************)
\* The records a server may put into a response
ResponseRecords ==
  { Rec(1, RECORD_NEXT_PROTOCOL, htons(NEXT_PROTOCOL_NTPV4)),
    Rec(1, RECORD_NEXT_PROTOCOL, <<0, 1>>),
    Rec(1, RECORD_AEAD_ALGORITHM, htons(AEAD_AES_SIV_CMAC_256)),
    Rec(1, RECORD_AEAD_ALGORITHM, <<0, 14>>),
    Rec(1, RECORD_ERROR, htons(ERROR_BAD_REQUEST)),
    Rec(0, RECORD_WARNING, <<0, 0>>),
    Rec(1, UNKNOWN_RECORD_TYPE, << >>),
    Rec(0, UNKNOWN_RECORD_TYPE, << >>),
    Rec(0, RECORD_COOKIE, <<7, 7, 7>>) }

Responses ==
  {s \o <<EndOfMessage>> : s \in UNION {[1..k -> ResponseRecords] : k \in 0..MaxResponseRecords}}

\* The client's NKE instance after it received recs, validated them in
\* KE_RECEIVE and closed from KE_SHUTDOWN
ClosedClient(recs) ==
  LET o == OpenClient(NKE_CreateInstance, SockFd(ClientNke), "ok").inst
  IN  close_connection(ReceiveClient(
        [o EXCEPT !.state = KE_RECEIVE, !.events = {SCH_FILE_INPUT},
                  !.message = BuildMessage(NewMessage, recs)]))

InitResponse ==
  /\ message = NewMessage
  /\ records \in Responses
  /\ added = 0
  /\ out = << >>
  /\ fmt = "none"
  /\ pc = "append"
  /\ \E rand \in {3} :
       /\ server_keys = InitialKeyRing(rand).server_keys
       /\ current_server_key = InitialKeyRing(rand).current_server_key
  /\ keys_drawn = 1
  /\ sealed = NoCookie
  /\ decoded = NotDecoded
  /\ inst = [i \in {ClientNke} |-> ClosedClient(records)]
  /\ conn_log = [i \in {ClientNke} |-> NewLog]
  /\ call = NoCall
  /\ server_instances = EmptyPool
  /\ nts = [NTS_CreateClientInstance EXCEPT !.nke = ClientNke]
  /\ packet = << >>
  /\ nts_log = NewNtsLog
  /\ request = NoPacket
  /\ response = NoPacket

NextResponse == NTS_PrepareForAuth

SpecResponse == InitResponse /\ [][NextResponse]_vars

(***************************************************************************)
(* The client's requests                                                   *)
(*                                                                         *)
(* packet holds the extension fields NEF_AddField has appended to the      *)
(* request under construction, each [type, body].  NEF_AddField is code of *)
(* ntp_ext.c: it appends the field or returns 0 and leaves the packet.     *)
(***************************************************************************)
NTP_EF_NTS_UNIQUE_IDENTIFIER == "NTP_EF_NTS_UNIQUE_IDENTIFIER"

NTP_EF_NTS_COOKIE == "NTP_EF_NTS_COOKIE"

NTP_EF_NTS_COOKIE_PLACEHOLDER == "NTP_EF_NTS_COOKIE_PLACEHOLDER"

NTP_EF_NTS_AUTH_AND_EEF == "NTP_EF_NTS_AUTH_AND_EEF"

Field(type, body) == [type |-> type, body |-> body]

\* The number of bytes the fields take in the packet, headers included
RECURSIVE FieldsLength(_)
FieldsLength(fields) ==
  IF fields = << >> THEN 0
  ELSE 4 + Len(Head(fields).body) + FieldsLength(Tail(fields))

\* siv_aes128_cmac_encrypt_message with an empty plaintext: the SIV tag
\* over the nonce and the packet so far, as SIV_DIGEST_SIZE symbolic bytes
SivTag(key, nonce, fields) ==
  [i \in 1..SIV_DIGEST_SIZE |->
     256 + i + 32 * ((key[1] % 64) + 64 * ((nonce[1] % 16)
                       + 16 * (FieldsLength(fields) % 1024)))]

\* The struct auth of NTS_GenerateRequestAuth, as the body of its field
AuthBody(C, fields) ==
  htons(NONCE_LENGTH) \o htons(SIV_DIGEST_SIZE) \o C.nonce
    \o SivTag(C.siv_c2s, C.nonce, fields)

NumPlaceholders_one_more(C) == MAX_COOKIES - C.num_cookies + 1

\* The bound of the placeholder loop
NumPlaceholders(C) == MAX_COOKIES - C.num_cookies

NextCookieIndex_stays(C) == C.cookie_index

NextCookieIndex(C) == (C.cookie_index + 1) % MAX_COOKIES

\* The fields NTS_GenerateRequestAuth adds when no NEF_AddField call fails
RequestFields(C) ==
  LET cookie == C.cookies[C.cookie_index]
      body == SubSeq(cookie.cookie, 1, cookie.length)
      before == <<Field(NTP_EF_NTS_UNIQUE_IDENTIFIER, C.uniq_id),
                  Field(NTP_EF_NTS_COOKIE, body)>>
                  \o [i \in 1..NumPlaceholders(C) |->
                        Field(NTP_EF_NTS_COOKIE_PLACEHOLDER, body)]
  IN  before \o <<Field(NTP_EF_NTS_AUTH_AND_EEF, AuthBody(C, before))>>

\* NTS_GenerateRequestAuth on client C: [ret, nts, packet].  fail is the
\* number of the NEF_AddField call that fails, 0 if none does.
GenerateRequestAuth(C, fail) ==
  IF needs_nke(C) THEN [ret |-> 0, nts |-> C, packet |-> << >>]
  ELSE LET fields == RequestFields(C)
       IN  IF fail \in 1..Len(fields)
           THEN [ret |-> 0, nts |-> C, packet |-> SubSeq(fields, 1, fail - 1)]
           ELSE [ret |-> 1,
                 nts |-> [C EXCEPT !.num_cookies = @ - 1,
                                   !.cookie_index = NextCookieIndex(C)],
                 packet |-> fields]

\* A call of NTS_GenerateRequestAuth on a new packet
NTS_GenerateRequestAuth ==
  /\ \E fail \in 0..(MAX_COOKIES + 3) :
       LET g == GenerateRequestAuth(nts, fail)
           this == [uniq_id |-> nts.uniq_id, nonce |-> nts.nonce, key |-> nts.siv_c2s]
       IN  /\ needs_nke(nts) => fail = 0
           /\ fail <= Len(RequestFields(nts))
           /\ nts' = g.nts
           /\ packet' = g.packet
           /\ nts_log' = [nts_log EXCEPT
                 !.before = [num_cookies |-> nts.num_cookies,
                             cookie_index |-> nts.cookie_index],
                 !.used = IF g.ret = 1 THEN Append(@, g.packet[2].body) ELSE @,
                 !.prev = IF g.ret = 1 THEN nts_log.last ELSE @,
                 !.last = IF g.ret = 1 THEN this ELSE @]
           /\ call' = Call("NTS_GenerateRequestAuth", "none", "none", g.ret)
  /\ UNCHANGED <<inst, conn_log, request, response>>
  /\ UNCHANGED <<codecVars, keyVars, poolVars>>

(***************************************************************************)
(* SpecNts: one NTS client over up to MaxDraws key establishments; each    *)
(* connection receives the first records of a response of NtsResponses     *)
(***************************************************************************)
\* Cookie number j of a response
NtsCookie(j) == Rec(0, RECORD_COOKIE, Fill(4 * (1 + (j % 2)), j))

\* A response with k cookies
NtsResponse(k) ==
  <<Rec(1, RECORD_NEXT_PROTOCOL, htons(NEXT_PROTOCOL_NTPV4)),
    Rec(1, RECORD_AEAD_ALGORITHM, htons(AEAD_AES_SIV_CMAC_256))>>
    \o [j \in 1..k |-> NtsCookie(j)] \o <<EndOfMessage>>

NtsResponses ==
  {NtsResponse(k) : k \in 0..(MAX_COOKIES + 1)}
    \cup {<<Rec(1, RECORD_ERROR, htons(ERROR_BAD_REQUEST)), EndOfMessage>>}

\* How many records of resp the connection may have received when its
\* KE_RECEIVE case runs
Cuts(resp) == 0..Len(resp)

\* How many bytes of the header of End-of-Message may have followed the
\* records before it
PartBytes == {0, 2}

\* The buffer after gnutls_record_recv has delivered the first r records of
\* resp and the first b bytes of the next one
ReceivedPart(resp, r, b) ==
  LET m == BuildMessage(NewMessage, SubSeq(resp, 1, r))
      next == BuildMessage(NewMessage, SubSeq(resp, r + 1, r + 1))
  IN  IF b = 0 \/ r = Len(resp) THEN m
      ELSE [m EXCEPT !.data = SubSeq(m.data, 1, m.length) \o SubSeq(next.data, 1, b),
                     !.length = m.length + b]

\* The callbacks of the client's connection from NKE_OpenClientConnection
\* to the KE_RECEIVE case of update_state on what it has received
KeExchange ==
  /\ nts.nke # NullInst
  /\ inst[nts.nke].state = KE_WAIT_CONNECT
  /\ \E resp \in NtsResponses : \E r \in Cuts(resp) : \E b \in PartBytes :
       /\ b > 0 => r = Len(resp) - 1
       /\ inst' = [inst EXCEPT ![nts.nke] =
                     ReceiveClient([@ EXCEPT !.state = KE_RECEIVE,
                                             !.events = {SCH_FILE_INPUT},
                                             !.message = ReceivedPart(resp, r, b)])]
       /\ call' = Call("read_write_socket", nts.nke, "none", r)
  /\ UNCHANGED <<conn_log, codecVars, keyVars, poolVars, ntsVars>>

InitNts ==
  /\ message = NewMessage
  /\ records = << >>
  /\ added = 0
  /\ out = << >>
  /\ fmt = "none"
  /\ pc = "append"
  /\ \E rand \in {3} :
       /\ server_keys = InitialKeyRing(rand).server_keys
       /\ current_server_key = InitialKeyRing(rand).current_server_key
  /\ keys_drawn = 1
  /\ sealed = NoCookie
  /\ decoded = NotDecoded
  /\ inst = [i \in {} |-> NKE_CreateInstance]
  /\ conn_log = [i \in {} |-> NewLog]
  /\ call = NoCall
  /\ server_instances = EmptyPool
  /\ nts = NTS_CreateClientInstance
  /\ packet = << >>
  /\ nts_log = NewNtsLog
  /\ request = NoPacket
  /\ response = NoPacket

NtsTimeout == \E i \in DOMAIN inst : session_timeout(i)

NextNts == NTS_PrepareForAuth \/ NTS_GenerateRequestAuth \/ KeExchange \/ NtsTimeout

SpecNts == InitNts /\ [][NextNts]_vars

(***************************************************************************)
(* The NTP server's side of NTS                                            *)
(*                                                                         *)
(* request and response are NTP packets with their NTP_PacketInfo: mode,   *)
(* header (the NTP header, as one number) and the extension fields.        *)
(* NEF_ParseField and NEF_AddField are code of ntp_ext.c: parsed counts    *)
(* the fields read so far, NEF_ParseField returns the count after the next *)
(* field or a value below parsed when no field is left, NEF_AddField       *)
(* appends the field or returns 0 and leaves the packet.                   *)
(***************************************************************************)
MODE_CLIENT == "MODE_CLIENT"

MODE_SERVER == "MODE_SERVER"

\* The length of the zeroed array of add_response_cookie
RESPONSE_COOKIE_LENGTH == 100

get_padded_length(length) ==
  IF length % 4 # 0 THEN length + 4 - (length % 4) ELSE length

\* parse_auth_and_eef: [ret, nonce_length, ciphertext_length, nonce,
\* ciphertext]; nonce and ciphertext are the offsets in ef_body that the two
\* pointers of struct AuthAndEEF are set to, 0 where they are not assigned
parse_auth_and_eef(ef_body, ef_body_length) ==
  IF ef_body_length < 4
  THEN [ret |-> 0, nonce_length |-> 0, ciphertext_length |-> 0,
        nonce |-> 0, ciphertext |-> 0]
  ELSE LET nonce_length == ntohs(SubSeq(ef_body, 1, 2))
           ciphertext_length == ntohs(SubSeq(ef_body, 3, 4))
       IN  IF get_padded_length(nonce_length)
                + get_padded_length(ciphertext_length) > ef_body_length
           THEN [ret |-> 0, nonce_length |-> nonce_length,
                 ciphertext_length |-> ciphertext_length,
                 nonce |-> 0, ciphertext |-> 0]
           ELSE [ret |-> 1, nonce_length |-> nonce_length,
                 ciphertext_length |-> ciphertext_length,
                 nonce |-> 4,
                 ciphertext |-> 4 + get_padded_length(nonce_length)]

\* NEF_ParseField: [ret, ef_type, ef_body, ef_body_length]
NEF_ParseField(P, parsed) ==
  IF parsed < Len(P.fields)
  THEN [ret |-> parsed + 1, ef_type |-> P.fields[parsed + 1].type,
        ef_body |-> P.fields[parsed + 1].body,
        ef_body_length |-> Len(P.fields[parsed + 1].body)]
  ELSE [ret |-> -1, ef_type |-> "none", ef_body |-> << >>, ef_body_length |-> 0]

\* The loop of NTS_CheckRequestAuth from parsed on, cookie being 1 once a
\* cookie field has been seen: the value the function returns
RECURSIVE CheckRequestLoop(_, _, _)
CheckRequestLoop(P, parsed, cookie) ==
  LET f == NEF_ParseField(P, parsed)
  IN  IF f.ret < parsed THEN 1
      ELSE CASE f.ef_type = NTP_EF_NTS_COOKIE ->
                  IF cookie = 1 THEN 0 ELSE CheckRequestLoop(P, f.ret, 1)
             [] f.ef_type = NTP_EF_NTS_COOKIE_PLACEHOLDER ->
                  CheckRequestLoop(P, f.ret, cookie)
             [] f.ef_type = NTP_EF_NTS_AUTH_AND_EEF ->
                  IF parse_auth_and_eef(f.ef_body, f.ef_body_length).ret = 0 THEN 0
                  ELSE CheckRequestLoop(P, f.ret, cookie)
             [] OTHER -> CheckRequestLoop(P, f.ret, cookie)

\* NTS_CheckRequestAuth on packet P: the value it returns
CheckRequestAuth(P) ==
  IF Len(P.fields) = 0 \/ P.mode # MODE_CLIENT THEN 0
  ELSE CheckRequestLoop(P, 0, 0)

\* The fields one iteration of the switch of NTS_GenerateResponseAuth adds
\* for a field of the request: the case of the Unique Identifier has no
\* break and runs into the case of the cookies
ResponseAuthFields(f) ==
  CASE f.ef_type = NTP_EF_NTS_UNIQUE_IDENTIFIER ->
         <<Field(f.ef_type, SubSeq(f.ef_body, 1, f.ef_body_length)),
           Field(NTP_EF_NTS_COOKIE, Fill(RESPONSE_COOKIE_LENGTH, 0))>>
    [] f.ef_type \in {NTP_EF_NTS_COOKIE, NTP_EF_NTS_COOKIE_PLACEHOLDER} ->
         <<Field(NTP_EF_NTS_COOKIE, Fill(RESPONSE_COOKIE_LENGTH, 0))>>
    [] OTHER -> << >>

\* The loop of NTS_GenerateResponseAuth from parsed on: [ret, response].
\* fail is the number of the NEF_AddField call that fails, 0 if none does.
RECURSIVE ResponseAuthLoop(_, _, _, _)
ResponseAuthLoop(req, parsed, res, fail) ==
  LET f == NEF_ParseField(req, parsed)
  IN  IF f.ret < parsed THEN [ret |-> 1, response |-> res]
      ELSE LET new == ResponseAuthFields(f)
               n == Len(res.fields)
           IN  IF fail \in (n + 1)..(n + Len(new))
               THEN [ret |-> 0,
                     response |-> [res EXCEPT
                        !.fields = @ \o SubSeq(new, 1, fail - n - 1)]]
               ELSE ResponseAuthLoop(req, f.ret,
                                     [res EXCEPT !.fields = @ \o new], fail)

\* NTS_GenerateResponseAuth: [ret, response]
GenerateResponseAuth(req, res, fail) ==
  IF req.mode # MODE_CLIENT \/ res.mode # MODE_SERVER
  THEN [ret |-> 0, response |-> res]
  ELSE ResponseAuthLoop(req, 0, res, fail)

\* NTS_CheckResponseAuth of client C on packet P: the value it returns
CheckResponseAuth(C, P) ==
  IF Len(P.fields) = 0 \/ P.mode # MODE_SERVER THEN 0 ELSE 0

(***************************************************************************)
(* SpecServer: the server's three functions on the request of a client     *)
(* that holds cookies of the server, on requests made from it by changing  *)
(* one part, and on every request of up to MaxFields fields of ServerFields*)
(***************************************************************************)
\* The NTP header the client sends (its first byte: version 4, mode 3), and
\* one with a byte changed
NtpHeader == 4 * 8 + 3

TamperedHeader == NtpHeader + 1

\* A client after a key establishment that gave it n cookies of the server
ServerClient(n) ==
  LET ring == InitialKeyRing(3)
      k == CHOOSE k \in SessionKeys : TRUE
  IN  [NTS_CreateClientInstance EXCEPT
         !.cookies = [j \in 0..(MAX_COOKIES - 1) |->
                        IF j < n
                        THEN NKE_GenerateCookie(ring.server_keys, ring.current_server_key,
                                                k[1], k[2], Fill(NONCE_SIZE, 161 + j)).cookie
                        ELSE ZeroCookie],
         !.num_cookies = n,
         !.siv_c2s = k[1].key, !.siv_s2c = k[2].key,
         !.uniq_id = RandomBytes(UNIQ_ID_LENGTH, 1),
         !.nonce = RandomBytes(NONCE_LENGTH, 1)]

\* The numbers of cookies the client holds
ClientCookies == {1, MAX_COOKIES}

\* Fields a sender may put into a request: a Unique Identifier, a cookie of
\* the server, a cookie no key of the server opens, a placeholder, an
\* authenticator too short for its lengths, one whose lengths exceed it, and
\* a field of another type
ServerFields(C) ==
  { Field(NTP_EF_NTS_UNIQUE_IDENTIFIER, C.uniq_id),
    Field(NTP_EF_NTS_COOKIE, C.cookies[0].cookie),
    Field(NTP_EF_NTS_COOKIE, Fill(SERVER_COOKIE_SIZE, 9)),
    Field(NTP_EF_NTS_COOKIE_PLACEHOLDER, Fill(SERVER_COOKIE_SIZE, 0)),
    Field(NTP_EF_NTS_AUTH_AND_EEF, <<0, 16>>),
    Field(NTP_EF_NTS_AUTH_AND_EEF, htons(NONCE_LENGTH) \o htons(SIV_DIGEST_SIZE)
                                     \o Fill(8, 0)),
    Field("NTP_EF_OTHER", <<1, 2, 3, 4>>) }

\* The fields of the requests made from the client's fields g by changing
\* one part: g itself, g without its authenticator, g with another cookie,
\* g with a second cookie, g with a changed tag
ChangedFields(C, g) ==
  LET last == Len(g)
  IN  { g,
        SubSeq(g, 1, last - 1),
        [g EXCEPT ![2] = Field(NTP_EF_NTS_COOKIE, Fill(SERVER_COOKIE_SIZE, 9))],
        <<g[1], g[2]>> \o SubSeq(g, 2, last),
        [g EXCEPT ![last] = Field(NTP_EF_NTS_AUTH_AND_EEF,
                                  SubSeq(g[last].body, 1, 4 + NONCE_LENGTH)
                                    \o Fill(SIV_DIGEST_SIZE, 0))] }

ServerRequests(C, g) ==
  { [mode |-> mode, header |-> header, fields |-> fields] :
      mode \in {MODE_CLIENT, MODE_SERVER},
      header \in {NtpHeader, TamperedHeader},
      fields \in ChangedFields(C, g)
                   \cup UNION {[1..n -> ServerFields(C)] : n \in 0..MaxFields} }

InitServer ==
  /\ message = NewMessage
  /\ records = << >>
  /\ added = 0
  /\ out = << >>
  /\ fmt = "none"
  /\ pc = "append"
  /\ \E rand \in {3} :
       /\ server_keys = InitialKeyRing(rand).server_keys
       /\ current_server_key = InitialKeyRing(rand).current_server_key
  /\ keys_drawn = 1
  /\ sealed = NoCookie
  /\ decoded = NotDecoded
  /\ inst = [i \in {} |-> NKE_CreateInstance]
  /\ conn_log = [i \in {} |-> NewLog]
  /\ call = NoCall
  /\ server_instances = EmptyPool
  /\ \E n \in ClientCookies :
       /\ nts = GenerateRequestAuth(ServerClient(n), 0).nts
       /\ packet = GenerateRequestAuth(ServerClient(n), 0).packet
       /\ request \in ServerRequests(ServerClient(n),
                                     GenerateRequestAuth(ServerClient(n), 0).packet)
  /\ nts_log = NewNtsLog
  /\ response = [mode |-> MODE_SERVER, header |-> NtpHeader, fields |-> << >>]

\* The server calls NTS_CheckRequestAuth on the request it received
NTS_CheckRequestAuth ==
  /\ call' = Call("NTS_CheckRequestAuth", "none", "none", CheckRequestAuth(request))
  /\ UNCHANGED <<inst, conn_log, codecVars, keyVars, poolVars, ntsVars>>

\* The server calls NTS_GenerateResponseAuth on a response without fields
NTS_GenerateResponseAuth ==
  /\ \E fail \in 0..MaxAddFails :
       LET g == GenerateResponseAuth(request,
                                     [response EXCEPT !.fields = << >>], fail)
       IN  /\ fail > 0 => g.ret = 0
           /\ response' = g.response
           /\ call' = Call("NTS_GenerateResponseAuth", "none",
                           IF fail = 0 THEN "none" ELSE "NEF_AddField failed", g.ret)
  /\ UNCHANGED <<nts, packet, nts_log, request>>
  /\ UNCHANGED <<inst, conn_log, codecVars, keyVars, poolVars>>

\* The client calls NTS_CheckResponseAuth on the response the server built
NTS_CheckResponseAuth ==
  /\ call.op = "NTS_GenerateResponseAuth"
  /\ call.n = 1
  /\ call' = Call("NTS_CheckResponseAuth", "none", "none",
                  CheckResponseAuth(nts, response))
  /\ UNCHANGED <<inst, conn_log, codecVars, keyVars, poolVars, ntsVars>>

NextServer == NTS_CheckRequestAuth \/ NTS_GenerateResponseAuth \/ NTS_CheckResponseAuth

SpecServer == InitServer /\ [][NextServer]_vars

(***************************************************************************)
(* SpecAuth: parse_auth_and_eef on every body of up to MaxAuthBody bytes   *)
(* whose two length fields are of AuthLengths.  request holds the field,   *)
(* call the struct AuthAndEEF the function fills in.                       *)
(***************************************************************************)
\* Values of the two 16-bit length fields: the small ones and the largest
AuthLengths == 0..(MaxAuthBody + 1) \cup {65535}

\* The bodies: those too short for the two length fields, and those that
\* begin with them
AuthBodies ==
  {Fill(L, 0) : L \in 0..3}
    \cup {htons(n) \o htons(c) \o Fill(L - 4, 0) :
            L \in 4..MaxAuthBody, n \in AuthLengths, c \in AuthLengths}

InitAuth ==
  /\ message = NewMessage
  /\ records = << >>
  /\ added = 0
  /\ out = << >>
  /\ fmt = "none"
  /\ pc = "append"
  /\ \E rand \in {3} :
       /\ server_keys = InitialKeyRing(rand).server_keys
       /\ current_server_key = InitialKeyRing(rand).current_server_key
  /\ keys_drawn = 1
  /\ sealed = NoCookie
  /\ decoded = NotDecoded
  /\ inst = [i \in {} |-> NKE_CreateInstance]
  /\ conn_log = [i \in {} |-> NewLog]
  /\ call = NoCall
  /\ server_instances = EmptyPool
  /\ nts = NTS_CreateClientInstance
  /\ packet = << >>
  /\ nts_log = NewNtsLog
  /\ \E body \in AuthBodies :
       request = [mode |-> MODE_CLIENT, header |-> NtpHeader,
                  fields |-> <<Field(NTP_EF_NTS_AUTH_AND_EEF, body)>>]
  /\ response = NoPacket

\* NTS_CheckRequestAuth reaches the authenticator and calls parse_auth_and_eef
ParseAuthAndEef ==
  /\ call = NoCall
  /\ LET ef_body == request.fields[1].body
         p == parse_auth_and_eef(ef_body, Len(ef_body))
     IN  call' = [op |-> "parse_auth_and_eef", inst |-> "none", r |-> "none",
                  n |-> p.ret, auth |-> p]
  /\ UNCHANGED <<inst, conn_log, codecVars, keyVars, poolVars, ntsVars>>

NextAuth == ParseAuthAndEef

SpecAuth == InitAuth /\ [][NextAuth]_vars

(***************************************************************************)
(* SpecBuffer: one message buffer under every order of the operations the  *)
(* code has on it, with records that fill it up to its capacity.  added    *)
(* counts the records appended since the last reset.                       *)
(***************************************************************************)
\* Body lengths of the records appended: a short body, a body that leaves
\* 8 bytes of the buffer, the longest body a record can name, and one more
AppendSizes == {4, MAX_MESSAGE_LENGTH - 12, MAX_BODY_LENGTH, MAX_BODY_LENGTH + 1}

InitBuffer ==
  /\ message = NewMessage
  /\ records = << >>
  /\ added = 0
  /\ out = << >>
  /\ fmt = "none"
  /\ pc = "append"
  /\ \E rand \in {3} :
       /\ server_keys = InitialKeyRing(rand).server_keys
       /\ current_server_key = InitialKeyRing(rand).current_server_key
  /\ keys_drawn = 1
  /\ sealed = NoCookie
  /\ decoded = NotDecoded
  /\ inst = [i \in {} |-> NKE_CreateInstance]
  /\ conn_log = [i \in {} |-> NewLog]
  /\ call = NoCall
  /\ server_instances = EmptyPool
  /\ nts = NTS_CreateClientInstance
  /\ packet = << >>
  /\ nts_log = NewNtsLog
  /\ request = NoPacket
  /\ response = NoPacket

\* reset_message
BufReset ==
  /\ message' = reset_message(message)
  /\ added' = 0
  /\ call' = Call("reset_message", "none", "none", 0)
  /\ UNCHANGED <<records, out, fmt, pc>>
  /\ UNCHANGED <<inst, conn_log, keyVars, poolVars, ntsVars>>

\* add_record with a body of n bytes; call.n is what it returned
BufAppend ==
  /\ added < MaxAppends
  /\ \E n \in AppendSizes :
       LET a == add_record(message, 0, RECORD_COOKIE, Fill(n, 255), n)
       IN  /\ message' = a.message
           /\ call' = Call("add_record", "none",
                           IF n > MAX_BODY_LENGTH THEN "long body"
                           ELSE IF message.length + HEADER_SIZE + n > MAX_MESSAGE_LENGTH
                           THEN "no space" ELSE "fits", a.ret)
           /\ added' = added + a.ret
  /\ UNCHANGED <<records, out, fmt, pc>>
  /\ UNCHANGED <<inst, conn_log, keyVars, poolVars, ntsVars>>

\* get_record
BufIterate ==
  /\ LET g == get_record(message, MAX_RECORD_BODY_LENGTH)
     IN  /\ message' = g.message
         /\ call' = Call("get_record", "none", "none", g.ret)
  /\ UNCHANGED <<records, added, out, fmt, pc>>
  /\ UNCHANGED <<inst, conn_log, keyVars, poolVars, ntsVars>>

\* check_message_format
BufValidate ==
  /\ LET c == check_message_format(message)
     IN  /\ message' = c.message
         /\ call' = Call("check_message_format", "none", c.ret, 0)
  /\ UNCHANGED <<records, added, out, fmt, pc>>
  /\ UNCHANGED <<inst, conn_log, keyVars, poolVars, ntsVars>>

\* One pass of the loop of the KE_RECEIVE case on a buffer that has less
\* than MaxRecvBytes left (Spec has the receptions into a short buffer)
BufReceive ==
  /\ message.length >= MAX_MESSAGE_LENGTH - MaxRecvBytes
  /\ \E x \in RecvLoop(message, 1) :
       /\ x.r \in {"done", "toolong"}
       /\ message' = x.message
       /\ call' = Call("read_write_socket", "none", x.r, 0)
  /\ UNCHANGED <<records, added, out, fmt, pc>>
  /\ UNCHANGED <<inst, conn_log, keyVars, poolVars, ntsVars>>

\* The KE_SEND case: gnutls_record_send has sent n bytes, all that was
\* left once a part has been sent
BufSend ==
  /\ \E n \in SendSizes(message.length - message.sent) :
       /\ message.sent > 0 => n = message.length - message.sent
       /\ message' = [message EXCEPT !.sent = @ + n]
       /\ call' = Call("read_write_socket", "none", "sent", n)
  /\ UNCHANGED <<records, added, out, fmt, pc>>
  /\ UNCHANGED <<inst, conn_log, keyVars, poolVars, ntsVars>>

NextBuffer ==
  BufReset \/ BufAppend \/ BufIterate \/ BufValidate \/ BufReceive \/ BufSend

SpecBuffer == InitBuffer /\ [][NextBuffer]_vars

(***************************************************************************)
(* Claims about the connections                                            *)
(***************************************************************************)
\* The state of instance i, Closed for an instance that does not exist
StateOf(i) == IF i \in DOMAIN inst THEN inst[i].state ELSE KE_CLOSED

\* C1: every message a connection holds in the Send state (the request of a
\* client, the response of a server, also when key export or cookie
\* generation failed while it was built) validates as Ok.
C1_SendIsComplete ==
  \A i \in DOMAIN inst :
    inst[i].state = KE_SEND => check_message_format(inst[i].message).ret = MSG_OK

ClientOrder ==
  {<<KE_CLOSED, KE_WAIT_CONNECT>>, <<KE_WAIT_CONNECT, KE_HANDSHAKE>>,
   <<KE_HANDSHAKE, KE_SEND>>, <<KE_SEND, KE_RECEIVE>>, <<KE_RECEIVE, KE_SHUTDOWN>>,
   <<KE_SHUTDOWN, KE_CLOSED>>}

\* C8: a client connection changes state only along Closed -> WaitConnect ->
\* Handshake -> Send -> Receive -> Shutdown -> Closed or from a non-Closed
\* state to Closed; it leaves Send for Receive only when every byte of the
\* request has been sent, and Receive for Shutdown only when the received
\* response validates as Ok.
C8_ClientTransitions ==
  [][\A i \in DOMAIN inst :
       (i \in ClientInsts /\ inst[i].state # inst'[i].state) =>
         /\ <<inst[i].state, inst'[i].state>> \in ClientOrder \/ inst'[i].state = KE_CLOSED
         /\ (inst[i].state = KE_SEND /\ inst'[i].state = KE_RECEIVE) =>
              /\ conn_log'[i].sent = inst[i].message.length
              /\ inst[i].message.sent + call'.n = inst[i].message.length
         /\ (inst[i].state = KE_RECEIVE /\ inst'[i].state = KE_SHUTDOWN) =>
              check_message_format(inst'[i].message).ret = MSG_OK]_vars

\* A client that has sent its request in pieces, received a response and
\* reached Shutdown
C8_Witness ==
  \E i \in DOMAIN inst :
    /\ inst[i].mode = KE_CLIENT
    /\ inst[i].state = KE_SHUTDOWN
    /\ conn_log[i].sent > 0
    /\ inst[i].message.length > HEADER_SIZE

ServerOrder ==
  {<<KE_CLOSED, KE_HANDSHAKE>>, <<KE_HANDSHAKE, KE_RECEIVE>>, <<KE_RECEIVE, KE_SEND>>,
   <<KE_SEND, KE_SHUTDOWN>>, <<KE_SHUTDOWN, KE_CLOSED>>}

\* C9: a server connection changes state only along Closed -> Handshake ->
\* Receive -> Send -> Shutdown -> Closed or from a non-Closed state to
\* Closed; process_request runs at most once per connection, only on a
\* received message that validates as Ok, and no byte is sent before it.
C9_ServerTransitions ==
  [][\A i \in DOMAIN inst :
       i \in ServerInsts =>
         /\ inst[i].state # inst'[i].state =>
              \/ <<inst[i].state, inst'[i].state>> \in ServerOrder
              \/ inst'[i].state = KE_CLOSED
         /\ inst'[i].processed <= 1
         /\ inst'[i].processed > 0 =>
              check_message_format(inst'[i].request).ret = MSG_OK
         /\ conn_log'[i].sent > 0 => inst'[i].processed = 1]_vars

\* A server that has processed a request, sent the response and reached
\* Shutdown
C9_Witness ==
  \E i \in DOMAIN inst :
    /\ inst[i].mode = KE_SERVER
    /\ inst[i].state = KE_SHUTDOWN
    /\ inst[i].processed = 1
    /\ conn_log[i].sent = inst[i].message.length
    /\ conn_log[i].sent > 0

\* C10: a connection that leaves Closed has its timeout armed at that
\* moment and keeps it while it is not Closed; when the timeout fires the
\* connection is Closed, its descriptor deregistered and its socket closed;
\* a fatal error of the socket or of TLS closes it; and every connection
\* that is not Closed is Closed later, whatever the peer does.
C10_TimeoutCloses ==
  /\ [][\A i \in DOMAIN inst :
          /\ (inst[i].state = KE_CLOSED /\ inst'[i].state # KE_CLOSED) => inst'[i].timer = 1
          /\ inst'[i].state # KE_CLOSED => inst'[i].timer = 1
          /\ (call'.inst = i /\ call'.op = "session_timeout" /\ inst[i].state # KE_CLOSED) =>
               /\ inst'[i].state = KE_CLOSED
               /\ inst'[i].events = {}
               /\ inst'[i].open = 0
               /\ inst'[i].sock_fd = INVALID_SOCK_FD
          /\ (call'.inst = i /\ call'.r = "fatal" /\ inst[i].state # KE_CLOSED) =>
               inst'[i].state = KE_CLOSED]_vars
  /\ \A i \in Insts : (StateOf(i) # KE_CLOSED) ~> (StateOf(i) = KE_CLOSED)

\* A connection that its timeout has closed
C10_Witness ==
  \E i \in DOMAIN inst :
    /\ call.inst = i
    /\ call.op = "session_timeout"
    /\ inst[i].mode # KE_UNKNOWN
    /\ inst[i].state = KE_CLOSED
    /\ inst[i].open = 0

\* C11 as stated: in Send and in Receive exactly one event is armed on the
\* descriptor, output in Send and input in Receive.
C11_ExactlyOneArmed ==
  \A i \in DOMAIN inst :
    /\ inst[i].state = KE_SEND => inst[i].events = {SCH_FILE_OUTPUT}
    /\ inst[i].state = KE_RECEIVE => inst[i].events = {SCH_FILE_INPUT}

\* C11: input stays armed for the whole connection; in Send input and output
\* are both armed, in Receive only input is.
C11_InputAlwaysOutputInSend ==
  \A i \in DOMAIN inst :
    /\ inst[i].state = KE_SEND => inst[i].events = {SCH_FILE_INPUT, SCH_FILE_OUTPUT}
    /\ inst[i].state = KE_RECEIVE => inst[i].events = {SCH_FILE_INPUT}

\* A connection in Send, part of its message sent, with both events armed
C11_Witness ==
  \E i \in DOMAIN inst :
    /\ inst[i].state = KE_SEND
    /\ inst[i].message.sent > 0
    /\ inst[i].events = {SCH_FILE_INPUT, SCH_FILE_OUTPUT}

(***************************************************************************)
(* Claims about the pool                                                   *)
(***************************************************************************)
\* C12 as stated: a connection that is given a slot is given a null slot
\* whenever the pool has one, and a slot with a Closed instance only when no
\* slot is null.
C12_NullSlotFirst ==
  [][(/\ call'.op = "accept_connection"
      /\ call'.n >= 0
      /\ \E j \in Slots : server_instances[j] = NullInst)
       => server_instances[call'.n] = NullInst]_vars

(***************************************************************************)
(* Claims about requests and responses                                     *)
(***************************************************************************)
ValidNextProtocol(r) ==
  r.type = RECORD_NEXT_PROTOCOL /\ r.critical = 1 /\ Len(r.body) >= 2 /\ Len(r.body) % 2 = 0

UnknownCritical(r) ==
  r.critical = 1 /\ r.type \notin RECORD_END_OF_MESSAGE..RECORD_NTPV4_PORT_NEGOTIATION

BadRecord(r) ==
  \/ r.type \in {RECORD_ERROR, RECORD_WARNING, RECORD_COOKIE}
  \/ r.type = RECORD_NEXT_PROTOCOL /\ ~ValidNextProtocol(r)
  \/ r.type = RECORD_AEAD_ALGORITHM /\ (Len(r.body) < 2 \/ Len(r.body) % 2 # 0)

\* The index of the first record of the request that offends, 0 if none does
FirstOffender ==
  LET bad == {k \in 1..Len(records) : UnknownCritical(records[k]) \/ BadRecord(records[k])}
  IN  IF bad = {} THEN 0 ELSE CHOOSE k \in bad : \A j \in bad : k <= j

\* The response made of one critical Error record and End-of-Message
ErrorResponse(code) ==
  <<[critical |-> 1, type |-> RECORD_ERROR, body_length |-> 2, body |-> htons(code)],
    [critical |-> 1, type |-> RECORD_END_OF_MESSAGE, body_length |-> 0, body |-> << >>]>>

\* C13: a request with a valid Next-Protocol record whose first offending
\* record is an unknown critical record, wherever it stands, is answered
\* with Error(UnrecognizedCriticalRecord), End-of-Message.
C13_UnrecognizedCritical ==
  (/\ pc = "response"
   /\ \E k \in 1..Len(records) : ValidNextProtocol(records[k])
   /\ FirstOffender > 0
   /\ UnknownCritical(records[FirstOffender]))
    => out = ErrorResponse(ERROR_UNRECOGNIZED_CRITICAL_RECORD)

ResponseRecord(critical, type, body) ==
  [critical |-> critical, type |-> type, body_length |-> Len(body), body |-> body]

\* C15: a request that yields no error is answered with critical
\* Next-Protocol = NTPv4, critical AEAD-Algorithm = AES-SIV-CMAC-256, at most
\* one critical NTPv4-Port record, exactly MAX_COOKIES Cookie records that are
\* not critical and End-of-Message, whatever the request offered.
C15_CookiesOnlyWithNegotiation ==
  (/\ pc = "response"
   /\ FirstOffender = 0
   /\ \E k \in 1..Len(records) : ValidNextProtocol(records[k]))
    => LET n == Len(out)
       IN  /\ n \in {MAX_COOKIES + 3, MAX_COOKIES + 4}
           /\ out[1] = ResponseRecord(1, RECORD_NEXT_PROTOCOL, htons(NEXT_PROTOCOL_NTPV4))
           /\ out[2] = ResponseRecord(1, RECORD_AEAD_ALGORITHM, htons(AEAD_AES_SIV_CMAC_256))
           /\ n = MAX_COOKIES + 4 =>
                /\ out[3].critical = 1
                /\ out[3].type = RECORD_NTPV4_PORT_NEGOTIATION
                /\ out[3].body_length = 2
           /\ \A k \in (n - MAX_COOKIES)..(n - 1) :
                out[k].critical = 0 /\ out[k].type = RECORD_COOKIE
           /\ out[n] = ResponseRecord(1, RECORD_END_OF_MESSAGE, << >>)


(***************************************************************************)
(* Claims about the client's reading of a response (SpecResponse)          *)
(***************************************************************************)
\* The records of the response the client read last that have the type t
OfType(t) == {k \in 1..Len(nts_log.response) : nts_log.response[k].type = t}

\* The client has read its response and come back from NTS_PrepareForAuth
ResponseRead == call.op = "NTS_PrepareForAuth" /\ nts_log.response # << >>

\* C16: the client gets cookies from a response only if the response holds
\* exactly one Next-Protocol record and exactly one AEAD-Algorithm record.
C16_ExactlyOneOfEach ==
  (ResponseRead /\ nts.num_cookies > 0)
    => /\ Cardinality(OfType(RECORD_NEXT_PROTOCOL)) = 1
       /\ Cardinality(OfType(RECORD_AEAD_ALGORITHM)) = 1

\* Record k of the response makes the response invalid
Invalidates(k) ==
  LET g == nts_log.response[k]
  IN  \/ g.type \in {RECORD_ERROR, RECORD_WARNING}
      \/ g.type = UNKNOWN_RECORD_TYPE /\ g.critical = 1
      \/ g.type = RECORD_NEXT_PROTOCOL /\ g.body # htons(NEXT_PROTOCOL_NTPV4)
      \/ g.type = RECORD_AEAD_ALGORITHM /\ g.body # htons(AEAD_AES_SIV_CMAC_256)

RequestEmitted == call.op = "NTS_GenerateRequestAuth" /\ call.n = 1

\* The bodies of the Cookie records of the response read last, in its order
ResponseCookies ==
  LET c == SelectSeq(nts_log.response, LAMBDA g : g.type = RECORD_COOKIE)
  IN  [k \in 1..Len(c) |-> c[k].body]

\* C18: num_cookies stays within 0..8 and the cookie index within 0..7; a
\* request is emitted only if num_cookies was positive before the call;
\* the cookies of the requests since the last key establishment are the
\* first cookies of its response, in the order of the response, and none
\* of them is used twice.
C18_CookieRing ==
  /\ nts.num_cookies \in 0..8
  /\ nts.cookie_index \in 0..7
  /\ RequestEmitted => nts_log.before.num_cookies > 0
  /\ Len(nts_log.used) <= Len(ResponseCookies)
  /\ \A k \in 1..Len(nts_log.used) : nts_log.used[k] = ResponseCookies[k]
  /\ \A j, k \in 1..Len(nts_log.used) : j # k => nts_log.used[j] # nts_log.used[k]

\* Eight requests after a response with nine cookies
C18_Witness ==
  /\ RequestEmitted
  /\ Len(ResponseCookies) = 9
  /\ Len(nts_log.used) = 8
  /\ nts.num_cookies = 0
  /\ nts.cookie_index = 0

\* C19: a successful NTS_GenerateRequestAuth call with n cookies before it
\* has added a Unique-Identifier field, a Cookie field, 8 - n placeholders
\* as long as the cookie and an authenticator field with a 16-byte nonce and
\* a 16-byte ciphertext, in this order, and left n - 1 cookies with the
\* index advanced by one modulo 8; a failed call leaves both as they were.
C19_RequestLayout ==
  (call.op = "NTS_GenerateRequestAuth") =>
    LET n == nts_log.before.num_cookies
        last == Len(packet)
    IN  IF call.n = 1
        THEN /\ last = 2 + (8 - n) + 1
             /\ packet[1].type = NTP_EF_NTS_UNIQUE_IDENTIFIER
             /\ packet[2].type = NTP_EF_NTS_COOKIE
             /\ \A k \in 3..(last - 1) :
                  /\ packet[k].type = NTP_EF_NTS_COOKIE_PLACEHOLDER
                  /\ Len(packet[k].body) = Len(packet[2].body)
             /\ packet[last].type = NTP_EF_NTS_AUTH_AND_EEF
             /\ ntohs(SubSeq(packet[last].body, 1, 2)) = 16
             /\ ntohs(SubSeq(packet[last].body, 3, 4)) = 16
             /\ Len(packet[last].body) = 4 + 16 + 16
             /\ nts.num_cookies = n - 1
             /\ nts.cookie_index = (nts_log.before.cookie_index + 1) % 8
        ELSE /\ nts.num_cookies = n
             /\ nts.cookie_index = nts_log.before.cookie_index

\* A request built with three cookies left: five placeholders
C19_Witness ==
  /\ RequestEmitted
  /\ nts_log.before.num_cookies = 3
  /\ Len(packet) = 8
  /\ packet[7].type = NTP_EF_NTS_COOKIE_PLACEHOLDER
  /\ nts.num_cookies = 2

\* C20: a request of a client carries a Unique-Identifier that differs from
\* the one of its previous request, and a nonce that differs from the
\* previous one when both requests are authenticated with the same C2S key.
C20_FreshPerRequest ==
  (RequestEmitted /\ nts_log.prev # NoRequest)
    => /\ nts_log.last.uniq_id # nts_log.prev.uniq_id
       /\ nts_log.last.key = nts_log.prev.key
            => nts_log.last.nonce # nts_log.prev.nonce


(***************************************************************************)
(* Claims about the slots of the key ring (SpecKeys)                       *)
(***************************************************************************)
\* The slots a rotation has installed: their SIV context is not the zero one
Installed == {k \in 0..(MAX_SERVER_KEYS - 1) : server_keys[k].siv # 0}

\* The key id of the cookie under observation
SealedKeyId == BytesU32(SubSeq(sealed.cookie.cookie, 1, 4))

\* C27: the current index stays in 0..3; a rotation changes only the slot
\* after the previous current one; the id of every installed slot has the
\* slot's index in its low 2 bits; and the slot selected by the id of a
\* cookie sealed less than 4 rotations ago holds a key with that id.
C27_RingSlots ==
  /\ [](/\ current_server_key \in 0..3
        /\ \A k \in Installed : server_keys[k].id % 4 = k
        /\ (sealed # NoCookie /\ RotationsSinceSeal < 4)
             => server_keys[SealedKeyId % 4].id = SealedKeyId)
  /\ [][server_keys' # server_keys =>
          /\ current_server_key' = (current_server_key + 1) % 4
          /\ \A k \in 0..3 : k # current_server_key'
                              => server_keys'[k] = server_keys[k]]_vars

\* The ring has gone round, and the observed cookie is three rotations old
C27_Witness ==
  /\ Installed = 0..3
  /\ keys_drawn >= 5
  /\ sealed # NoCookie
  /\ RotationsSinceSeal = 3
  /\ server_keys[SealedKeyId % 4].id = SealedKeyId

\* C28: a cookie whose key id selects a slot that no rotation has installed
\* is not opened: NKE_DecodeCookie returns 0 for it.
C28_NeverInstalledRejects ==
  (call.op = "NKE_DecodeCookie" /\ (call.key_id % MAX_SERVER_KEYS) \notin Installed)
    => call.n = 0


(***************************************************************************)
(* Claims about the message buffer (SpecBuffer)                            *)
(***************************************************************************)
\* C26: whatever is done with a message buffer, 0 <= parsed <= length <=
\* 16384 and 0 <= sent <= length; add_record fails when the record does not
\* fit into the space left or its body is longer than 65535 bytes, and a
\* failed add_record leaves the buffer as it was.
C26_BufferBounds ==
  /\ [](/\ 0 <= message.parsed /\ message.parsed <= message.length
        /\ message.length <= 16384
        /\ 0 <= message.sent /\ message.sent <= message.length
        /\ (call.op = "add_record" /\ call.r # "fits") => call.n = 0)
  /\ [][(call'.op = "add_record" /\ call'.n = 0) => message' = message]_vars

\* A full buffer, parsed and sent to its end, has refused a record
C26_Witness ==
  /\ message.length = 16384
  /\ message.parsed = 16384
  /\ message.sent = 16384
  /\ call.op = "add_record"
  /\ call.r = "no space"
  /\ call.n = 0


\* C29 as stated: every non-null slot of the pool refers to an instance
\* that has not been destroyed; after accept_server_connection fails and
\* the instance is destroyed, no slot refers to it.
C29_NoDestroyedInPool ==
  \A k \in Slots :
    server_instances[k] # NullInst => inst[server_instances[k]].freed = 0


(***************************************************************************)
(* Claims about the client and its key establishment                       *)
(***************************************************************************)
\* C30 as stated: NTS_PrepareForAuth takes cookies from a connection only
\* when that connection has left KE_RECEIVE with a response that validated
\* as MSG_OK; a call made while the connection is in KE_WAIT_CONNECT,
\* KE_HANDSHAKE, KE_SEND or KE_RECEIVE obtains zero cookies and leaves the
\* connection as it is.
C30_CookiesOnlyAfterOk ==
  [][call'.op = "NTS_PrepareForAuth" /\ nts.nke # NullInst /\ needs_nke(nts) =>
       /\ nts'.num_cookies > 0 =>
            /\ inst[nts.nke].state \in {KE_SHUTDOWN, KE_CLOSED}
            /\ check_message_format(inst[nts.nke].message).ret = MSG_OK
       /\ inst[nts.nke].state \in {KE_WAIT_CONNECT, KE_HANDSHAKE, KE_SEND, KE_RECEIVE} =>
            /\ nts'.num_cookies = 0
            /\ nts'.nke = nts.nke
            /\ inst'[nts.nke].state = inst[nts.nke].state
            /\ inst'[nts.nke].freed = 0]_vars


\* The client's connection is Closed and its buffer yields no cookies
ClosedWithoutCookies ==
  /\ nts.nke # NullInst
  /\ inst[nts.nke].state = KE_CLOSED
  /\ nts.num_cookies = 0
  /\ NKE_GetCookies(inst[nts.nke], nts.cookies, MAX_COOKIES).ret = 0

\* C25 as stated: when the ring is empty and the client's connection has
\* ended in Closed without yielding cookies, a call of NTS_PrepareForAuth
\* starts a new key establishment: after it the client has a connection that
\* is not Closed, or cookies.
C25_RetryStartsNewRound ==
  [][call'.op = "NTS_PrepareForAuth" /\ ClosedWithoutCookies =>
       \/ nts'.num_cookies > 0
       \/ nts'.nke # NullInst /\ inst'[nts'.nke].state # KE_CLOSED]_vars


(***************************************************************************)
(* Claims about the NTP server's side                                      *)
(***************************************************************************)
\* The positions of the fields of type t in P
FieldsOf(P, t) == {k \in 1..Len(P.fields) : P.fields[k].type = t}

\* The keys the server recovers from the cookie in field k of P
Opened(P, k) ==
  NKE_DecodeCookie(server_keys, [length |-> Len(P.fields[k].body),
                                 cookie |-> P.fields[k].body])

\* request is what the client built: its fields under the header it sent
FromClient ==
  request = [mode |-> MODE_CLIENT, header |-> NtpHeader, fields |-> packet]

\* C21 as stated: when the server has built the response to a request the
\* client produced and the cookie of the request gives the server the
\* client's S2C key, NTS_CheckResponseAuth of that client on the response
\* succeeds.
C21_ResponseRoundTrip ==
  (/\ call.op = "NTS_CheckResponseAuth"
   /\ FromClient
   /\ Opened(request, 2).ret = 1
   /\ Opened(request, 2).s2c.key = nts.siv_s2c) => call.n = 1

\* C22 as stated: NTS_CheckRequestAuth accepts a request only if it is in
\* client mode and has exactly one NTS Cookie field, placeholders not
\* counted.
C22_ExactlyOneCookie ==
  (call.op = "NTS_CheckRequestAuth" /\ call.n = 1) =>
     /\ request.mode = MODE_CLIENT
     /\ Cardinality(FieldsOf(request, NTP_EF_NTS_COOKIE)) = 1

\* The authenticator in field a of P verifies under the C2S key of the
\* cookie in field c, over the header the client sent and the fields before a
Verifies(P, c, a) ==
  LET p == parse_auth_and_eef(P.fields[a].body, Len(P.fields[a].body))
      nonce == SubSeq(P.fields[a].body, 5, 4 + p.nonce_length)
      tag == SubSeq(P.fields[a].body, 5 + get_padded_length(p.nonce_length),
                    4 + get_padded_length(p.nonce_length) + p.ciphertext_length)
  IN  /\ p.ret = 1
      /\ p.nonce_length > 0
      /\ Opened(P, c).ret = 1
      /\ P.header = NtpHeader
      /\ tag = SivTag(Opened(P, c).c2s.key, nonce, SubSeq(P.fields, 1, a - 1))

\* C23 as stated: NTS_CheckRequestAuth accepts a request only if it has an
\* authenticator field whose tag verifies, under the C2S key of the request's
\* cookie, over the packet before that field.
C23_TagVerifies ==
  (call.op = "NTS_CheckRequestAuth" /\ call.n = 1) =>
     \E c \in FieldsOf(request, NTP_EF_NTS_COOKIE),
        a \in FieldsOf(request, NTP_EF_NTS_AUTH_AND_EEF) : Verifies(request, c, a)

\* C24 as stated: a response NTS_GenerateResponseAuth has built has one NTS
\* Cookie field for each cookie or placeholder field of the request and no
\* other; the Unique Identifier is echoed without a cookie.
C24_CookiePerCookie ==
  (call.op = "NTS_GenerateResponseAuth" /\ call.n = 1) =>
     Cardinality(FieldsOf(response, NTP_EF_NTS_COOKIE))
       = Cardinality(FieldsOf(request, NTP_EF_NTS_COOKIE))
           + Cardinality(FieldsOf(request, NTP_EF_NTS_COOKIE_PLACEHOLDER))


\* C32 as stated: when parse_auth_and_eef succeeds on a body of L bytes, the
\* nonce range [4, 4 + padded(nonce_length)) and the ciphertext range that
\* follows it, of padded(ciphertext_length) bytes, lie within [0, L).
C32_RangesWithinBody ==
  (call.op = "parse_auth_and_eef" /\ call.n = 1) =>
     LET L == Len(request.fields[1].body)
         a == call.auth
     IN  /\ a.nonce = 4
         /\ a.ciphertext = 4 + get_padded_length(a.nonce_length)
         /\ a.nonce + get_padded_length(a.nonce_length) <= L
         /\ a.ciphertext + get_padded_length(a.ciphertext_length) <= L


(***************************************************************************)
(* Claims about the life of a connection                                   *)
(***************************************************************************)
\* C31: for every instance, being Closed, having no descriptor (sock_fd is
\* INVALID_SOCK_FD, nothing registered with the scheduler, the socket not
\* open) and having no timeout (timeout_id is 0, none armed) are equivalent;
\* close_connection on a Closed instance changes nothing; and
\* read_write_socket is never called on an instance that is Closed.
C31_ClosedEquivalence ==
  /\ [](\A i \in DOMAIN inst :
          /\ inst[i].state = KE_CLOSED <=> inst[i].sock_fd = INVALID_SOCK_FD
          /\ inst[i].state = KE_CLOSED <=> inst[i].timeout_id = 0
          /\ inst[i].sock_fd = INVALID_SOCK_FD <=> inst[i].events = {}
          /\ inst[i].sock_fd = INVALID_SOCK_FD <=> inst[i].open = 0
          /\ inst[i].timeout_id = 0 <=> inst[i].timer = 0
          /\ inst[i].state = KE_CLOSED => close_connection(inst[i]) = inst[i])
  /\ [][\A i \in DOMAIN inst :
          (call'.op = "read_write_socket" /\ call'.inst = i)
             => inst[i].state # KE_CLOSED /\ inst[i].events # {}]_vars

\* A connection that was open and that a fatal error has closed: no
\* descriptor, no timeout
C31_Witness ==
  \E i \in DOMAIN inst :
    /\ call.inst = i
    /\ call.op = "read_write_socket"
    /\ call.r = "fatal"
    /\ inst[i].mode # KE_UNKNOWN
    /\ inst[i].state = KE_CLOSED
    /\ inst[i].sock_fd = INVALID_SOCK_FD
    /\ inst[i].timeout_id = 0
    /\ inst[i].events = {}
    /\ inst[i].timer = 0

====
